---- MODULE Spec2Model ----
(***************************************************************************)
(* State-machine model of the multi-provider AI gateway of nerdbot         *)
(* (src/convex/lib/ai.ts): generateResponse, its four adapters and the     *)
(* bounded tool-call loop of callMoonshotWithSearch; of GitHub issue       *)
(* creation (createGitHubIssue); of the image resolver                     *)
(* (fetchImageForModel with getFile and downloadTelegramFile); of the      *)
(* processMessage and processIssue actions; and of the Telegram webhook    *)
(* route.                                                                  *)
(*                                                                         *)
(* Spec follows one call of generateResponse or of createGitHubIssue,      *)
(* FairSpec one call of generateResponse whose fetches are all answered,   *)
(* ConcurrentSpec two interleaved tool-loop calls, ImageSpec one call of   *)
(* fetchImageForModel, ProcessMessageSpec one run of processMessage,       *)
(* ProcessIssueSpec one run of processIssue,                               *)
(* WebhookSpec the webhook requests handled in turn.  Every `await fetch`  *)
(* in the gateway is                                                       *)
(* a suspension point: the call action runs the code up to the first       *)
(* fetch, and one response action per adapter runs the code from the       *)
(* arrival of an upstream response to the next fetch, return or throw.     *)
(*                                                                         *)
(* Optional values (undefined / null in the source) are sequences of       *)
(* length at most one: None is absent, Some(v) is present.  Strings that   *)
(* the code builds from parts (URLs, error messages) are sequences of      *)
(* tokens.                                                                 *)
(***************************************************************************)
EXTENDS Integers, Sequences, FiniteSets, Bags, TLC

None == <<>>

Some(v) == <<v>>

\* a ?? b
OrElse(opt, default) == IF opt = None THEN default ELSE opt[1]

\* array.map(f)
MapSeq(f(_), s) == [k \in 1..Len(s) |-> f(s[k])]

RECURSIVE Flatten(_)
\* the concatenation of a sequence of sequences
Flatten(ss) == IF ss = <<>> THEN <<>> ELSE Head(ss) \o Flatten(Tail(ss))

(***************************************************************************)
(* Bounds of the model.                                                    *)
(***************************************************************************)
\* the longest tool_calls list one upstream response carries
MaxToolCalls == 2

\* the model follows one tool loop for at most this many fetches
MaxRequests == 5

(***************************************************************************)
(* Program constants.                                                      *)
(***************************************************************************)
MAX_TOOL_ITERATIONS == 5

MAX_TOKENS == 1024

(***************************************************************************)
(* Data model: ConversationMessage, ContentPart, options.                  *)
(***************************************************************************)
\* content: string
Str(t) == [array |-> FALSE, text |-> t]

\* content: ContentPart[]
Parts(ps) == [array |-> TRUE, parts |-> ps]

TextPart(t) == [type |-> "text", text |-> t]

ImagePart(mt, d) == [type |-> "image", mediaType |-> mt, data |-> d]

ThinkingMode == {"disabled", "enabled", "auto"}

userText == [role |-> "user", content |-> Str("[alice]: hi")]

assistantParts == [role |-> "assistant", content |-> Parts(<<TextPart("hello")>>)]

userImage ==
  [role |-> "user",
   content |-> Parts(<<TextPart("[alice]: look"), ImagePart("image/png", "AAAA")>>)]

\* the conversations a caller passes: text only (a string turn and an array
\* turn), an image in the only turn, an image in the last of three turns
Conversations ==
  {<<userText, assistantParts>>, <<userImage>>, <<userText, assistantParts, userImage>>}

Providers == {"claude", "moonshot", "grok", "openai", "foo", "Claude"}

KnownProviders == {"claude", "moonshot", "grok", "openai"}

ThinkingOptions == {None, Some("enabled")}

\* options?: GenerateResponseOptions
OptionsValues ==
  {None} \cup
  {Some([webSearch |-> w, thinking |-> t]) :
     w \in {None, Some(TRUE), Some(FALSE)}, t \in ThinkingOptions}

\* the values of process.env.OPENAI_BASE_URL: unset, empty, blank, a proxy
EnvValues ==
  {None, Some(<<>>), Some(<<" ">>), Some(<<" ", "https://proxy.example/v1", "/", "/">>)}

apiKey == "sk-test"

model == "test-model"

systemPrompt == "You are Nerdbot."

(***************************************************************************)
(* Content Normalizer.                                                     *)
(***************************************************************************)
toOpenAIPart(part) ==
  IF part.type = "text"
    THEN [type |-> "text", text |-> part.text]
    ELSE [type |-> "image_url",
          image_url |-> [url |-> "data:" \o part.mediaType \o ";base64," \o part.data]]

toOpenAIContent(content) ==
  IF ~content.array THEN content ELSE Parts(MapSeq(toOpenAIPart, content.parts))

RECURSIVE JoinWith(_, _)
\* array.join(sep)
JoinWith(ss, sep) ==
  IF ss = <<>> THEN ""
  ELSE IF Len(ss) = 1 THEN ss[1]
  ELSE ss[1] \o sep \o JoinWith(Tail(ss), sep)

toTextPart(part) == IF part.type = "text" THEN part.text ELSE "[image]"

toTextContent(content) ==
  IF ~content.array THEN content.text
  ELSE JoinWith(MapSeq(toTextPart, content.parts), " ")

messageHasImage(message) ==
  /\ message.content.array
  /\ \E k \in 1..Len(message.content.parts) : message.content.parts[k].type = "image"

\* variant: only the first turn is searched for an image
hasImage_FirstTurnOnly(messages) == messages # <<>> /\ messageHasImage(messages[1])

hasImage(messages) == \E k \in 1..Len(messages) : messageHasImage(messages[k])

contentForClaudePart(part) ==
  IF part.type = "text"
    THEN [type |-> "text", text |-> part.text]
    ELSE [type |-> "image",
          source |-> [type |-> "base64", media_type |-> part.mediaType, data |-> part.data]]

contentForClaude(content) ==
  IF ~content.array THEN content ELSE Parts(MapSeq(contentForClaudePart, content.parts))

(***************************************************************************)
(* Endpoints.  A URL is a sequence of tokens; "/" and " " are tokens of    *)
(* their own, so that trimming and slash-stripping act as in the source.   *)
(***************************************************************************)
DEFAULT_OPENAI_BASE_URL == <<"https://api.openai.com/v1">>

RECURSIVE StripTrailing(_, _)
StripTrailing(s, tok) ==
  IF s # <<>> /\ s[Len(s)] = tok THEN StripTrailing(SubSeq(s, 1, Len(s) - 1), tok) ELSE s

RECURSIVE StripLeading(_, _)
StripLeading(s, tok) ==
  IF s # <<>> /\ Head(s) = tok THEN StripLeading(Tail(s), tok) ELSE s

\* value.replace(/\/+$/, "")
normalizeBaseUrl(value) == StripTrailing(value, "/")

\* value.trim()
trim(value) == StripLeading(StripTrailing(value, " "), " ")

getOpenAIBaseUrl(env) ==
  IF env = None \/ env[1] = <<>> THEN DEFAULT_OPENAI_BASE_URL
  ELSE IF trim(env[1]) = <<>> THEN DEFAULT_OPENAI_BASE_URL
  ELSE normalizeBaseUrl(trim(env[1]))

joinUrl(baseUrl, path) == normalizeBaseUrl(baseUrl) \o <<"/">> \o StripLeading(path, "/")

getOpenAIChatCompletionsUrl(env) == joinUrl(getOpenAIBaseUrl(env), <<"chat/completions">>)

getOpenAIResponsesUrl(env) == joinUrl(getOpenAIBaseUrl(env), <<"responses">>)

CLAUDE_URL == <<"https://api.anthropic.com/v1/messages">>

\* Record<string, string>: absent keys read as undefined
OPENAI_COMPATIBLE_ENDPOINTS(provider) ==
  CASE provider = "moonshot" -> Some(<<"https://api.moonshot.ai/v1/chat/completions">>)
    [] provider = "grok" -> Some(<<"https://api.x.ai/v1/chat/completions">>)
    [] OTHER -> None

RESPONSES_API_ENDPOINTS(provider) ==
  CASE provider = "grok" -> Some(<<"https://api.x.ai/v1/responses">>)
    [] OTHER -> None

(***************************************************************************)
(* Upstream responses.  A fetch either rejects (transport failure), or     *)
(* resolves with a non-success status and a raw body, or resolves with a   *)
(* success status and a JSON body of the adapter's response type.          *)
(***************************************************************************)
TransportFailure == [kind |-> "transport"]

HttpFailure == [kind |-> "http", status |-> "500", body |-> "{\"error\":\"overloaded\"}"]

HttpUnauthorized == [kind |-> "http", status |-> "401", body |-> "Unauthorized"]

\* the non-success responses an upstream gives
HttpFailures == {HttpFailure, HttpUnauthorized}

Ok(data) == [kind |-> "ok", data |-> data]

\* OpenAIToolCall number n of a response
ToolCall(n) ==
  [id |-> "call_" \o ToString(n),
   type |-> "function",
   function |-> [name |-> "$web_search",
                 arguments |-> "{\"query\":\"q" \o ToString(n) \o "\"}"]]

\* message.tool_calls?: absent, or a list of no, one or MaxToolCalls calls
ToolCallLists == {None} \cup {Some([k \in 1..n |-> ToolCall(k)]) : n \in {0, 1, MaxToolCalls}}

\* message.content: string | null
ContentValues == {None, Some("Hi there.")}

FinishReasons == {"stop", "tool_calls", "length"}

\* usage?: { prompt_tokens?, completion_tokens? }
OpenAIUsages ==
  {None,
   Some([prompt_tokens |-> Some(5), completion_tokens |-> Some(3)]),
   Some([prompt_tokens |-> None, completion_tokens |-> Some(2)])}

\* the usage values the upstream reports inside one tool loop
ToolLoopUsages == {None, Some([prompt_tokens |-> Some(5), completion_tokens |-> Some(3)])}

OpenAIChoices ==
  {[finish_reason |-> f, message |-> [role |-> "assistant", content |-> c, tool_calls |-> t]] :
     f \in FinishReasons, c \in ContentValues, t \in ToolCallLists}

\* OpenAIAPIResponse bodies with usage drawn from us
OpenAIData(us) ==
  {[choices |-> <<>>, usage |-> u] : u \in us} \cup
  {[choices |-> <<ch>>, usage |-> u] : ch \in OpenAIChoices, u \in us}

OpenAIResponses(us) == {TransportFailure} \cup HttpFailures \cup {Ok(d) : d \in OpenAIData(us)}

\* ClaudeAPIResponse bodies
ClaudeData ==
  {[content |-> c, usage |-> u] :
     c \in {<<>>,
            <<[text |-> Some("Hi there.")]>>,
            <<[text |-> None], [text |-> Some("More.")]>>,
            <<[text |-> Some("Hi there.")], [text |-> Some("More.")]>>},
     u \in {None,
            Some([input_tokens |-> Some(5), output_tokens |-> Some(3)]),
            Some([input_tokens |-> Some(4), output_tokens |-> None])}}

ClaudeResponses == {TransportFailure} \cup HttpFailures \cup {Ok(d) : d \in ClaudeData}

WebSearchCall == [type |-> "web_search_call"]

MessageOutput(texts) ==
  [type |-> "message", content |-> [k \in 1..Len(texts) |-> [type |-> "output_text", text |-> texts[k]]]]

\* ResponsesAPIResponse bodies
ResponsesData ==
  {[id |-> "resp_1", output |-> o, usage |-> u] :
     o \in {<<>>,
            <<MessageOutput(<<>>)>>,
            <<MessageOutput(<<Some("Found it.")>>)>>,
            <<MessageOutput(<<None, Some("More.")>>)>>,
            <<MessageOutput(<<>>), MessageOutput(<<Some("Other.")>>)>>,
            <<WebSearchCall, MessageOutput(<<Some("Found it."), Some("More.")>>)>>,
            <<WebSearchCall, WebSearchCall, MessageOutput(<<Some("Found it.")>>),
              MessageOutput(<<Some("Other.")>>)>>,
            <<WebSearchCall>>},
     u \in OpenAIUsages}

ResponsesAPIResponses == {TransportFailure} \cup HttpFailures \cup {Ok(d) : d \in ResponsesData}

(***************************************************************************)
(* State.  One behaviour of Spec follows one call of one operation:        *)
(* generateResponse or createGitHubIssue.                                  *)
(***************************************************************************)
VARIABLES
  pc,                \* "idle" | "awaiting" (a fetch is in flight) | "returned" | "threw"
  provider,          \* argument of generateResponse
  options,           \* argument of generateResponse
  messages,          \* argument of generateResponse: the caller's array
  allowWebSearch,    \* local of generateResponse
  adapter,           \* the adapter function generateResponse called
  requests,          \* every fetch issued so far, in order
  i,                 \* callMoonshotWithSearch: loop counter
  totalInputTokens,  \* callMoonshotWithSearch: accumulator
  totalOutputTokens, \* callMoonshotWithSearch: accumulator
  searchQueries,     \* callMoonshotWithSearch: accumulator
  apiMessages,       \* callMoonshotWithSearch: running message history
  result,            \* the AIResponse the call resolved with, if any
  error,             \* the message of the error the call rejected with, if any
  received,          \* history: the body of every success response, in order (the
                     \* bodies of tool-loop rounds without their usage field)
  usageLog,          \* history: the bag of the usage fields of the tool-loop rounds
  failed,            \* history: the upstream response that failed, if one did
  twinRequest,       \* history: the first fetch the same call, with the same arguments,
                     \* issues in a process whose environment may differ
  issueCall,         \* createGitHubIssue: the state of one call
  imgPc,             \* fetchImageForModel: "idle" | "getFile" | "download" | "returned" | "threw"
  image,             \* fetchImageForModel: the descriptor argument
  fileInfo,          \* fetchImageForModel: local, the result of getFile
  download,          \* fetchImageForModel: local, the result of downloadTelegramFile
  networkCalls,      \* history: the Telegram calls fetchImageForModel made, in order
  imageData,         \* the value fetchImageForModel resolved with, if any
  imageError,        \* the message of the error fetchImageForModel rejected with, if any
  calls,             \* two concurrent tool-loop calls: position, arguments, outcome
  frames,            \* two concurrent tool-loop calls: the locals of each invocation
  processCall,       \* processMessage: the state of one run of the action
  webhook,           \* the Telegram webhook route: the database, the outbox, the
                     \* scheduler and the last request handled
  processIssueCall   \* processIssue: the state of one run of the action

gatewayVars ==
  <<pc, provider, options, messages, allowWebSearch, adapter, requests, i,
    totalInputTokens, totalOutputTokens, searchQueries, apiMessages, result, error,
    received, usageLog, failed, twinRequest>>

imageVars == <<imgPc, image, fileInfo, download, networkCalls, imageData, imageError>>

concurrentVars == <<calls, frames>>

botVars == <<processCall, webhook, processIssueCall>>

vars == <<gatewayVars, issueCall, imageVars, concurrentVars, botVars>>

\* createGitHubIssue before it is called
IdleIssueCall == [pc |-> "idle", requests |-> <<>>, result |-> None, error |-> None, failed |-> None]

\* processMessage before it is scheduled
IdleProcessCall ==
  [pc |-> "idle", args |-> None, aiProvider |-> "", webSearch |-> FALSE,
   recentMessages |-> <<>>, conversation |-> <<>>, aiRequests |-> 0, aiResponse |-> None,
   aiError |-> None, stored |-> <<>>, sent |-> <<>>, log |-> <<>>, faults |-> {},
   rejected |-> FALSE, imageFailure |-> None]

\* processIssue before it is scheduled
IdleProcessIssue ==
  [pc |-> "idle", args |-> None, aiProvider |-> "", messagesForAI |-> <<>>,
   aiRequests |-> 0, summary |-> None, githubRequests |-> <<>>, issue |-> None,
   sent |-> <<>>, log |-> <<>>, faults |-> {}, rejected |-> FALSE]

\* the webhook route before any request: an empty database, nothing sent or scheduled
IdleWebhook ==
  [handled |-> 0, request |-> None, status |-> 0, messages |-> <<>>, sent |-> <<>>,
   scheduled |-> <<>>, effects |-> <<>>, rateLimits |-> <<>>]

\* the concurrent invocations of callMoonshotWithSearch that are followed
CallIds == {1, 2}

\* an invocation that has not started
IdleCall ==
  [pc |-> "idle", messages |-> <<>>, thinking |-> None, requests |-> <<>>, result |-> None,
   error |-> None, responses |-> <<>>]

\* the locals callMoonshotWithSearch declares, as initialised
NewFrame ==
  [i |-> 0, totalInputTokens |-> 0, totalOutputTokens |-> 0, searchQueries |-> <<>>,
   apiMessages |-> <<>>]

loopVars == <<i, totalInputTokens, totalOutputTokens, searchQueries, apiMessages>>

callVars == <<provider, options, messages, allowWebSearch, adapter>>

Init ==
  /\ pc = "idle"
  /\ provider = ""
  /\ options = None
  /\ messages = <<>>
  /\ allowWebSearch = FALSE
  /\ adapter = "none"
  /\ requests = <<>>
  /\ i = 0
  /\ totalInputTokens = 0
  /\ totalOutputTokens = 0
  /\ searchQueries = <<>>
  /\ apiMessages = <<>>
  /\ result = None
  /\ error = None
  /\ received = <<>>
  /\ usageLog = EmptyBag
  /\ failed = None
  /\ twinRequest = None
  /\ issueCall = IdleIssueCall
  /\ imgPc = "idle"
  /\ image = None
  /\ fileInfo = None
  /\ download = None
  /\ networkCalls = <<>>
  /\ imageData = None
  /\ imageError = None
  /\ calls = [c \in CallIds |-> IdleCall]
  /\ frames = [c \in CallIds |-> NewFrame]
  /\ processCall = IdleProcessCall
  /\ webhook = IdleWebhook
  /\ processIssueCall = IdleProcessIssue

(***************************************************************************)
(* Request builders: the argument of each adapter's fetch.                 *)
(***************************************************************************)
systemMessage == [role |-> "system", content |-> Some(Str(systemPrompt))]

toOpenAIMessage(m) == [role |-> m.role, content |-> Some(toOpenAIContent(m.content))]

\* callClaude: the fetch it issues
ClaudeRequest(msgs) ==
  [url |-> CLAUDE_URL,
   auth |-> "x-api-key",
   body |-> [model |-> model,
             max_tokens |-> MAX_TOKENS,
             system |-> systemPrompt,
             messages |-> MapSeq(LAMBDA m : [role |-> m.role, content |-> contentForClaude(m.content)],
                                 msgs),
             tools |-> None,
             thinking |-> None]]

\* callOpenAICompatible: the endpoint it resolves, undefined when none is configured
ChatCompletionsUrl(p, env) ==
  IF p = "openai" THEN Some(getOpenAIChatCompletionsUrl(env)) ELSE OPENAI_COMPATIBLE_ENDPOINTS(p)

\* variant: the thinking mode is passed on whatever the provider
ChatRequest_ThinkingForAll(p, url, msgs, thinking) ==
  [url |-> url,
   auth |-> "Bearer",
   body |-> [model |-> model,
             max_tokens |-> MAX_TOKENS,
             messages |-> <<systemMessage>> \o MapSeq(toOpenAIMessage, msgs),
             tools |-> None,
             thinking |-> IF thinking # None THEN Some([type |-> thinking[1]]) ELSE None]]

\* callOpenAICompatible: the fetch it issues
ChatRequest(p, url, msgs, thinking) ==
  [url |-> url,
   auth |-> "Bearer",
   body |-> [model |-> model,
             max_tokens |-> MAX_TOKENS,
             messages |-> <<systemMessage>> \o MapSeq(toOpenAIMessage, msgs),
             tools |-> None,
             thinking |-> IF p = "moonshot" /\ thinking # None
                            THEN Some([type |-> thinking[1]]) ELSE None]]

\* callMoonshotWithSearch: the fixed tool descriptor list
MoonshotTools == <<[type |-> "builtin_function", function |-> [name |-> "$web_search"]]>>

\* callMoonshotWithSearch: the message list before the first round
InitialApiMessages(msgs) == <<systemMessage>> \o MapSeq(toOpenAIMessage, msgs)

\* variant: a round sends the history without its first turn after the system
\* message
ToolLoopRequest_DropsOldest(url, history, thinking) ==
  [url |-> url,
   auth |-> "Bearer",
   body |-> [model |-> model,
             max_tokens |-> MAX_TOKENS,
             messages |-> IF Len(history) > 3
                            THEN <<history[1]>> \o SubSeq(history, 3, Len(history))
                            ELSE history,
             tools |-> Some(MoonshotTools),
             thinking |-> IF thinking # None THEN Some([type |-> thinking[1]]) ELSE None]]

\* callMoonshotWithSearch: the fetch of one round
ToolLoopRequest(url, history, thinking) ==
  [url |-> url,
   auth |-> "Bearer",
   body |-> [model |-> model,
             max_tokens |-> MAX_TOKENS,
             messages |-> history,
             tools |-> Some(MoonshotTools),
             thinking |-> IF thinking # None THEN Some([type |-> thinking[1]]) ELSE None]]

\* callResponsesAPIWithSearch: the endpoint it resolves
ResponsesUrl(p, env) ==
  IF p = "openai" THEN Some(getOpenAIResponsesUrl(env)) ELSE RESPONSES_API_ENDPOINTS(p)

\* callResponsesAPIWithSearch: the fetch it issues
ResponsesRequest(url, msgs) ==
  [url |-> url,
   auth |-> "Bearer",
   body |-> [model |-> model,
             input |-> <<[role |-> "system", content |-> systemPrompt]>> \o
                       MapSeq(LAMBDA m : [role |-> m.role, content |-> toTextContent(m.content)],
                              msgs),
             tools |-> Some(<<[type |-> "web_search"]>>),
             thinking |-> None,
             store |-> FALSE]]

(***************************************************************************)
(* Gateway Facade: generateResponse.                                       *)
(***************************************************************************)
\* variant: the image check is left out
AllowWebSearch_IgnoresImages(opts, msgs) ==
  /\ opts # None
  /\ opts[1].webSearch = Some(TRUE)

\* options?.webSearch && !hasImage(messages), as the truth value the switch tests
AllowWebSearch(opts, msgs) ==
  /\ opts # None
  /\ opts[1].webSearch = Some(TRUE)
  /\ ~hasImage(msgs)

\* options?.thinking
ThinkingOf(opts) == IF opts = None THEN None ELSE opts[1].thinking

\* variant: openai always takes the chat-completions adapter
Dispatch_OpenAIWithoutSearch(p, allow) ==
  CASE p = "claude" -> "callClaude"
    [] p = "moonshot" -> IF allow THEN "callMoonshotWithSearch" ELSE "callOpenAICompatible"
    [] p = "grok" -> IF allow THEN "callResponsesAPIWithSearch" ELSE "callOpenAICompatible"
    [] p = "openai" -> "callOpenAICompatible"
    [] OTHER -> "none"

\* variant: the default case falls back to the message-API adapter
Dispatch_DefaultsToClaude(p, allow) ==
  CASE p = "moonshot" -> IF allow THEN "callMoonshotWithSearch" ELSE "callOpenAICompatible"
    [] p = "grok" -> IF allow THEN "callResponsesAPIWithSearch" ELSE "callOpenAICompatible"
    [] p = "openai" -> IF allow THEN "callResponsesAPIWithSearch" ELSE "callOpenAICompatible"
    [] OTHER -> "callClaude"

\* the switch of generateResponse: the adapter function called, "none" in the default case
Dispatch(p, allow) ==
  CASE p = "claude" -> "callClaude"
    [] p = "moonshot" -> IF allow THEN "callMoonshotWithSearch" ELSE "callOpenAICompatible"
    [] p = "grok" -> IF allow THEN "callResponsesAPIWithSearch" ELSE "callOpenAICompatible"
    [] p = "openai" -> IF allow THEN "callResponsesAPIWithSearch" ELSE "callOpenAICompatible"
    [] OTHER -> "none"

\* the endpoint the called adapter resolves before its fetch
AdapterUrl(a, p, env) ==
  CASE a = "callClaude" -> Some(CLAUDE_URL)
    [] a = "callOpenAICompatible" -> ChatCompletionsUrl(p, env)
    [] a = "callMoonshotWithSearch" -> OPENAI_COMPATIBLE_ENDPOINTS("moonshot")
    [] a = "callResponsesAPIWithSearch" -> ResponsesUrl(p, env)

\* the first fetch of the called adapter
FirstRequest(a, p, url, msgs, thinking) ==
  CASE a = "callClaude" -> ClaudeRequest(msgs)
    [] a = "callOpenAICompatible" -> ChatRequest(p, url, msgs, thinking)
    [] a = "callMoonshotWithSearch" -> ToolLoopRequest(url, InitialApiMessages(msgs), thinking)
    [] a = "callResponsesAPIWithSearch" -> ResponsesRequest(url, msgs)

\* the caller invokes generateResponse; it runs up to the first await
GenerateResponse ==
  /\ pc = "idle"
  /\ issueCall.pc = "idle"
  /\ \E p \in Providers, o \in OptionsValues, m \in Conversations, env \in EnvValues,
        otherEnv \in EnvValues :
       LET allow == AllowWebSearch(o, m)
           a == Dispatch(p, allow)
       IN /\ provider' = p
          /\ twinRequest' =
               IF a = "none" \/ AdapterUrl(a, p, otherEnv) = None THEN None
               ELSE Some(FirstRequest(a, p, AdapterUrl(a, p, otherEnv)[1], m, ThinkingOf(o)))
          /\ options' = o
          /\ messages' = m
          /\ allowWebSearch' = allow
          /\ adapter' = a
          /\ IF a = "none"
               THEN /\ pc' = "threw"
                    /\ error' = Some(<<"Unknown AI provider: ", p>>)
                    /\ UNCHANGED <<requests, apiMessages>>
             ELSE IF AdapterUrl(a, p, env) = None
               THEN /\ pc' = "threw"
                    /\ error' = Some(<<IF a = "callResponsesAPIWithSearch"
                                         THEN "No Responses API endpoint configured for provider: "
                                         ELSE "No endpoint configured for provider: ", p>>)
                    /\ UNCHANGED <<requests, apiMessages>>
             ELSE /\ pc' = "awaiting"
                  /\ error' = None
                  /\ requests' = <<FirstRequest(a, p, AdapterUrl(a, p, env)[1], m, ThinkingOf(o))>>
                  /\ apiMessages' = IF a = "callMoonshotWithSearch"
                                      THEN InitialApiMessages(m) ELSE <<>>
  /\ UNCHANGED <<i, totalInputTokens, totalOutputTokens, searchQueries, result, received, usageLog>>
  /\ UNCHANGED <<failed, issueCall, imageVars, concurrentVars, botVars>>

(***************************************************************************)
(* Failures common to the adapters.                                        *)
(***************************************************************************)
\* variant: the status code is left out of the message
ApiError_WithoutStatus(api, resp) == <<api, " API error: ", resp.body>>

\* `${api} API error: ${response.status} - ${error}`
ApiError(api, resp) == <<api, " API error: ", resp.status, " - ", resp.body>>

\* the rejection of fetch itself, propagated unchanged
FetchError == <<"fetch failed">>

\* variant: the failure is recorded but the call goes on waiting for an answer
Throw_KeepsWaiting(msg) ==
  /\ pc' = pc
  /\ error' = Some(msg)
  /\ result' = None

Throw(msg) ==
  /\ pc' = "threw"
  /\ error' = Some(msg)
  /\ result' = None

Return(r) ==
  /\ pc' = "returned"
  /\ result' = Some(r)
  /\ error' = None

(***************************************************************************)
(* Provider adapters: what each does with the upstream response.           *)
(***************************************************************************)
\* data.usage?.field
UsageField(usage, field) == IF usage = None THEN None ELSE usage[1][field]

\* callClaude: data.content[0]?.text ?? ""
ClaudeText(data) ==
  IF data.content = <<>> THEN Some("") ELSE Some(OrElse(data.content[1].text, ""))

\* callClaude: the AIResponse built from a success body
ClaudeResult(data) ==
  [text |-> ClaudeText(data),
   inputTokens |-> UsageField(data.usage, "input_tokens"),
   outputTokens |-> UsageField(data.usage, "output_tokens"),
   webSearchQueries |-> None]

ClaudeResponse ==
  /\ pc = "awaiting"
  /\ adapter = "callClaude"
  /\ \E resp \in ClaudeResponses :
       /\ CASE resp.kind = "transport" -> Throw(FetchError)
           [] resp.kind = "http" -> Throw(ApiError("Claude", resp))
           [] resp.kind = "ok" -> Return(ClaudeResult(resp.data))
       /\ received' = IF resp.kind = "ok" THEN Append(received, resp.data) ELSE received
       /\ failed' = IF resp.kind = "ok" THEN failed ELSE Some(resp)
  /\ UNCHANGED <<callVars, requests, loopVars, usageLog, twinRequest>>
  /\ UNCHANGED <<issueCall, imageVars, concurrentVars, botVars>>

\* variant: the ?? "" fallback is missing
ChatText_NoFallback(data) ==
  IF data.choices = <<>> THEN None ELSE data.choices[1].message.content

\* callOpenAICompatible: data.choices[0]?.message.content ?? ""
ChatText(data) ==
  IF data.choices = <<>> THEN Some("") ELSE Some(OrElse(data.choices[1].message.content, ""))

\* callOpenAICompatible: the AIResponse built from a success body
ChatResult(data) ==
  [text |-> ChatText(data),
   inputTokens |-> UsageField(data.usage, "prompt_tokens"),
   outputTokens |-> UsageField(data.usage, "completion_tokens"),
   webSearchQueries |-> None]

OpenAICompatibleResponse ==
  /\ pc = "awaiting"
  /\ adapter = "callOpenAICompatible"
  /\ \E resp \in OpenAIResponses(OpenAIUsages) :
       /\ CASE resp.kind = "transport" -> Throw(FetchError)
           [] resp.kind = "http" -> Throw(ApiError(provider, resp))
           [] resp.kind = "ok" -> Return(ChatResult(resp.data))
       /\ received' = IF resp.kind = "ok" THEN Append(received, resp.data) ELSE received
       /\ failed' = IF resp.kind = "ok" THEN failed ELSE Some(resp)
  /\ UNCHANGED <<callVars, requests, loopVars, usageLog, twinRequest>>
  /\ UNCHANGED <<issueCall, imageVars, concurrentVars, botVars>>

\* variant: the last message item is taken instead of the first
FindMessageOutput_Last(output) ==
  LET hits == {k \in 1..Len(output) : output[k].type = "message"}
  IN IF hits = {} THEN None
     ELSE Some(output[CHOOSE k \in hits : \A j \in hits : k >= j])

\* callResponsesAPIWithSearch: data.output.find(item => item.type === "message")
FindMessageOutput(output) ==
  LET hits == {k \in 1..Len(output) : output[k].type = "message"}
  IN IF hits = {} THEN None
     ELSE Some(output[CHOOSE k \in hits : \A j \in hits : k <= j])

\* callResponsesAPIWithSearch: messageOutput?.content[0]?.text ?? ""
ResponsesText(data) ==
  LET messageOutput == FindMessageOutput(data.output)
  IN IF messageOutput = None \/ messageOutput[1].content = <<>> THEN Some("")
     ELSE Some(OrElse(messageOutput[1].content[1].text, ""))

\* callResponsesAPIWithSearch: data.output.filter(item => item.type === "web_search_call").length
SearchCallCount(output) == Cardinality({k \in 1..Len(output) : output[k].type = "web_search_call"})

\* callResponsesAPIWithSearch: the AIResponse built from a success body
ResponsesResult(data) ==
  [text |-> ResponsesText(data),
   inputTokens |-> UsageField(data.usage, "prompt_tokens"),
   outputTokens |-> UsageField(data.usage, "completion_tokens"),
   webSearchQueries |->
     IF SearchCallCount(data.output) > 0
       THEN Some(<<"web_search (" \o ToString(SearchCallCount(data.output)) \o " call(s))">>)
       ELSE None]

ResponsesAPIResponse ==
  /\ pc = "awaiting"
  /\ adapter = "callResponsesAPIWithSearch"
  /\ \E resp \in ResponsesAPIResponses :
       /\ CASE resp.kind = "transport" -> Throw(FetchError)
           [] resp.kind = "http" -> Throw(ApiError(provider, resp))
           [] resp.kind = "ok" -> Return(ResponsesResult(resp.data))
       /\ received' = IF resp.kind = "ok" THEN Append(received, resp.data) ELSE received
       /\ failed' = IF resp.kind = "ok" THEN failed ELSE Some(resp)
  /\ UNCHANGED <<callVars, requests, loopVars, usageLog, twinRequest>>
  /\ UNCHANGED <<issueCall, imageVars, concurrentVars, botVars>>

(***************************************************************************)
(* Tool-Call Loop Controller: callMoonshotWithSearch.                      *)
(***************************************************************************)
\* variant: the round's count overwrites the total (= instead of +=)
AccumulateTokens_Overwrites(total, reported) == OrElse(reported, 0)

\* total += reported ?? 0
AccumulateTokens(total, reported) == total + OrElse(reported, 0)

\* variant: the arguments are put in front (unshift instead of push)
PushQueries_InFront(queries, toolCalls) ==
  [k \in 1..Len(toolCalls) |-> toolCalls[k].function.arguments] \o queries

\* for (const toolCall of tool_calls) searchQueries.push(toolCall.function.arguments)
PushQueries(queries, toolCalls) ==
  queries \o [k \in 1..Len(toolCalls) |-> toolCalls[k].function.arguments]

\* variant: the tool-result turns are pushed without the assistant turn
PushToolTurns_ResultsOnly(history, message) ==
  history \o
  [k \in 1..Len(message.tool_calls[1]) |->
     [role |-> "tool",
      tool_call_id |-> message.tool_calls[1][k].id,
      name |-> message.tool_calls[1][k].function.name,
      content |-> Some(Str(message.tool_calls[1][k].function.arguments))]]

\* the assistant turn and the tool-result turns pushed after a tool-call round
PushToolTurns(history, message) ==
  history \o
  <<[role |-> "assistant", content |-> IF message.content = None THEN None
                                        ELSE Some(Str(message.content[1])),
     tool_calls |-> message.tool_calls[1]]>> \o
  [k \in 1..Len(message.tool_calls[1]) |->
     [role |-> "tool",
      tool_call_id |-> message.tool_calls[1][k].id,
      name |-> message.tool_calls[1][k].function.name,
      content |-> Some(Str(message.tool_calls[1][k].function.arguments))]]

\* variant: the turns are pushed onto the parameter itself (apiMessages = messages)
CallerMessagesAfterPush_InPlace(msgs, message) == PushToolTurns(msgs, message)

\* the caller's array after apiMessages.push(...): apiMessages is an array of its
\* own, built from a spread of messages.map(...), so no push reaches the parameter
CallerMessagesAfterPush(msgs, message) == msgs

\* choice.message.content ?? ""
LoopText(content) == Some(OrElse(content, ""))

\* variant: the captured queries are not returned
LoopResult_WithoutQueries(content, tin, tout, queries) ==
  [text |-> LoopText(content),
   inputTokens |-> Some(tin),
   outputTokens |-> Some(tout),
   webSearchQueries |-> None]

\* the AIResponse of the two return statements of the loop
LoopResult(content, tin, tout, queries) ==
  [text |-> LoopText(content),
   inputTokens |-> Some(tin),
   outputTokens |-> Some(tout),
   webSearchQueries |-> IF Len(queries) > 0 THEN Some(queries) ELSE None]

\* variant: the loop condition is off by one (i <= MAX_TOOL_ITERATIONS)
LoopContinues_OffByOne(k) == k <= MAX_TOOL_ITERATIONS

\* variant: the loop has no cap
LoopContinues_Unbounded(k) == TRUE

\* the loop condition i < MAX_TOOL_ITERATIONS
LoopContinues(k) == k < MAX_TOOL_ITERATIONS

\* choice.finish_reason === "tool_calls" && choice.message.tool_calls
IsToolCallRound(choice) ==
  choice.finish_reason = "tool_calls" /\ choice.message.tool_calls # None

\* one round: from the arrival of the response to the next fetch, return or throw
ToolLoopRound(resp) ==
  CASE resp.kind = "transport" ->
         /\ Throw(FetchError)
         /\ UNCHANGED <<messages, requests, loopVars, received, usageLog>>
    [] resp.kind = "http" ->
         /\ Throw(ApiError("moonshot", resp))
         /\ UNCHANGED <<messages, requests, loopVars, received, usageLog>>
    [] resp.kind = "ok" ->
         LET data == resp.data
             tin == AccumulateTokens(totalInputTokens, UsageField(data.usage, "prompt_tokens"))
             tout == AccumulateTokens(totalOutputTokens, UsageField(data.usage, "completion_tokens"))
         IN /\ totalInputTokens' = tin
            /\ totalOutputTokens' = tout
            /\ usageLog' = usageLog (+) SetToBag({data.usage})
            /\ IF data.choices = <<>>
                 THEN /\ Throw(<<"moonshot API returned no choices">>)
                      /\ UNCHANGED <<messages, requests, i, searchQueries, apiMessages, received>>
               ELSE LET choice == data.choices[1] IN
                 /\ received' = Append(received, [choices |-> data.choices])
                 /\ IF choice.finish_reason = "stop"
                      THEN /\ Return(LoopResult(choice.message.content, tin, tout, searchQueries))
                           /\ UNCHANGED <<messages, requests, i, searchQueries, apiMessages>>
                    ELSE IF IsToolCallRound(choice)
                      THEN /\ searchQueries' = PushQueries(searchQueries, choice.message.tool_calls[1])
                           /\ apiMessages' = PushToolTurns(apiMessages, choice.message)
                           /\ messages' = CallerMessagesAfterPush(messages, choice.message)
                           /\ i' = i + 1
                           /\ IF LoopContinues(i + 1)
                                THEN /\ requests' =
                                          Append(requests,
                                                 ToolLoopRequest(requests[1].url,
                                                                 PushToolTurns(apiMessages, choice.message),
                                                                 ThinkingOf(options)))
                                     /\ UNCHANGED <<pc, result, error>>
                              ELSE /\ Throw(<<"moonshot web search exceeded maximum iterations">>)
                                   /\ UNCHANGED requests
                    ELSE /\ Return(LoopResult(choice.message.content, tin, tout, searchQueries))
                         /\ UNCHANGED <<messages, requests, i, searchQueries, apiMessages>>

\* the fetch in flight of the tool loop is answered by a response of the set S
MoonshotWithSearchRound(S) ==
  /\ pc = "awaiting"
  /\ adapter = "callMoonshotWithSearch"
  /\ Len(requests) <= MaxRequests
  /\ \E resp \in S :
       /\ ToolLoopRound(resp)
       /\ failed' = IF resp.kind = "ok" THEN failed ELSE Some(resp)
  /\ UNCHANGED <<provider, options, allowWebSearch, adapter, twinRequest>>
  /\ UNCHANGED <<issueCall, imageVars, concurrentVars, botVars>>

MoonshotWithSearchResponse == MoonshotWithSearchRound(OpenAIResponses(ToolLoopUsages))

(***************************************************************************)
(* GitHub issue creation: createGitHubIssue.                               *)
(***************************************************************************)
githubToken == "ghp_test"

Repos == {"owner/repo", "owner/nonexistent"}

IssueTitles == {"Bug", ""}

IssueBodies == {"Desc", ""}

\* the GitHubIssue a success response carries
CreatedIssue(repo, n) ==
  [html_url |-> "https://github.com/" \o repo \o "/issues/" \o ToString(n),
   number |-> n,
   title |-> "Bug: login fails"]

\* what GitHub answers: the failures of the unit tests, a transport failure, an issue
GitHubResponses ==
  {TransportFailure,
   [kind |-> "http", status |-> "401", body |-> "Bad credentials"],
   [kind |-> "http", status |-> "404", body |-> "Not Found"],
   [kind |-> "http", status |-> "422", body |-> "Validation Failed"]} \cup
  {Ok(CreatedIssue(repo, 42)) : repo \in Repos}

\* createGitHubIssue: the fetch it issues
GitHubRequest(token, repo, title, body) ==
  [url |-> <<"https://api.github.com/repos/", repo, "/issues">>,
   method |-> "POST",
   auth |-> <<"Bearer ", token>>,
   body |-> [title |-> title, body |-> body]]

\* the caller invokes createGitHubIssue; it runs up to the await of fetch
CreateGitHubIssue ==
  /\ pc = "idle"
  /\ issueCall.pc = "idle"
  /\ \E repo \in Repos, title \in IssueTitles, body \in IssueBodies :
       issueCall' = [issueCall EXCEPT !.pc = "awaiting",
                                      !.requests = <<GitHubRequest(githubToken, repo, title, body)>>]
  /\ UNCHANGED <<gatewayVars, imageVars, concurrentVars, botVars>>

\* createGitHubIssue: from the arrival of the response to the return or throw
GitHubResponse ==
  /\ issueCall.pc = "awaiting"
  /\ \E resp \in GitHubResponses :
       issueCall' =
         CASE resp.kind = "transport" ->
                [issueCall EXCEPT !.pc = "threw", !.error = Some(FetchError), !.failed = Some(resp)]
           [] resp.kind = "http" ->
                [issueCall EXCEPT !.pc = "threw", !.error = Some(ApiError("GitHub", resp)),
                                  !.failed = Some(resp)]
           [] resp.kind = "ok" ->
                [issueCall EXCEPT !.pc = "returned", !.result = Some(resp.data)]
  /\ UNCHANGED <<gatewayVars, imageVars, concurrentVars, botVars>>

Next ==
  \/ GenerateResponse
  \/ ClaudeResponse
  \/ OpenAICompatibleResponse
  \/ ResponsesAPIResponse
  \/ MoonshotWithSearchResponse
  \/ CreateGitHubIssue
  \/ GitHubResponse

Spec == Init /\ [][Next]_vars

\* the tool-loop responses that differ in what decides the control flow: the
\* failures, and every finish signal with every tool-call list (no text, no usage)
FinishSignalResponses ==
  {r \in OpenAIResponses({None}) :
     r.kind = "ok" /\ r.data.choices # <<>> => r.data.choices[1].message.content = None}

MoonshotWithSearchSignal == MoonshotWithSearchRound(FinishSignalResponses)

FairNext ==
  \/ GenerateResponse
  \/ ClaudeResponse
  \/ OpenAICompatibleResponse
  \/ ResponsesAPIResponse
  \/ MoonshotWithSearchSignal

\* every fetch in flight eventually resolves or rejects
FairSpec ==
  /\ Init
  /\ [][FairNext]_vars
  /\ WF_vars(ClaudeResponse)
  /\ WF_vars(OpenAICompatibleResponse)
  /\ WF_vars(ResponsesAPIResponse)
  /\ WF_vars(MoonshotWithSearchSignal)

(***************************************************************************)
(* Two concurrent invocations of callMoonshotWithSearch.  An invocation    *)
(* runs without interruption between two awaits, so the invocations        *)
(* interleave at their fetches: one action is the code of one invocation   *)
(* from one suspension point to the next.                                  *)
(***************************************************************************)
\* variant: the accumulators are module-level, one set shared by every invocation
FrameOf_Shared(c) == 1

\* the frame that holds the locals of invocation c: they are declared inside the
\* function body, so every invocation has a set of its own
FrameOf(c) == c

\* the arguments of the concurrent invocations: text-only conversations
ConcurrentInputs ==
  {[messages |-> <<userText>>, thinking |-> None],
   [messages |-> <<userText, assistantParts>>, thinking |-> Some("enabled")]}

\* a success response with one choice
RoundResponse(finish, calls_, usage) ==
  Ok([choices |-> <<[finish_reason |-> finish,
                     message |-> [role |-> "assistant", content |-> Some("Hi there."),
                                  tool_calls |-> calls_]]>>,
      usage |-> usage])

\* the answers to the fetches of the concurrent invocations: a failure, a stop, a
\* tool-call round with one call and one with two
ConcurrentResponses ==
  {HttpFailure,
   RoundResponse("stop", None, Some([prompt_tokens |-> Some(5), completion_tokens |-> Some(3)])),
   RoundResponse("tool_calls", Some(<<ToolCall(1)>>),
                 Some([prompt_tokens |-> Some(5), completion_tokens |-> Some(3)])),
   RoundResponse("tool_calls", Some(<<ToolCall(1), ToolCall(2)>>),
                 Some([prompt_tokens |-> None, completion_tokens |-> Some(2)]))}

\* how one round leaves the invocation: its locals, its position, its outcome
Outcome(fr, p, res, err) == [frame |-> fr, pc |-> p, result |-> res, error |-> err]

\* one round of the loop on the locals fr: from the arrival of the response to the
\* next fetch, return or throw
LoopRound(fr, resp) ==
  CASE resp.kind = "transport" -> Outcome(fr, "threw", None, Some(FetchError))
    [] resp.kind = "http" -> Outcome(fr, "threw", None, Some(ApiError("moonshot", resp)))
    [] resp.kind = "ok" ->
         LET data == resp.data
             tin == AccumulateTokens(fr.totalInputTokens, UsageField(data.usage, "prompt_tokens"))
             tout == AccumulateTokens(fr.totalOutputTokens,
                                      UsageField(data.usage, "completion_tokens"))
             counted == [fr EXCEPT !.totalInputTokens = tin, !.totalOutputTokens = tout]
         IN IF data.choices = <<>>
              THEN Outcome(counted, "threw", None, Some(<<"moonshot API returned no choices">>))
            ELSE LET choice == data.choices[1] IN
              IF choice.finish_reason = "stop"
                THEN Outcome(counted, "returned",
                             Some(LoopResult(choice.message.content, tin, tout, fr.searchQueries)),
                             None)
              ELSE IF IsToolCallRound(choice)
                THEN LET pushed ==
                           [counted EXCEPT
                              !.searchQueries = PushQueries(@, choice.message.tool_calls[1]),
                              !.apiMessages = PushToolTurns(@, choice.message),
                              !.i = @ + 1]
                     IN IF LoopContinues(fr.i + 1)
                          THEN Outcome(pushed, "awaiting", None, None)
                          ELSE Outcome(pushed, "threw", None,
                                       Some(<<"moonshot web search exceeded maximum iterations">>))
              ELSE Outcome(counted, "returned",
                           Some(LoopResult(choice.message.content, tin, tout, fr.searchQueries)),
                           None)

\* invocation c starts: the code up to the first fetch
CallMoonshotWithSearch(c) ==
  /\ calls[c].pc = "idle"
  /\ \E arg \in ConcurrentInputs :
       LET fr == [NewFrame EXCEPT !.apiMessages = InitialApiMessages(arg.messages)]
           url == OPENAI_COMPATIBLE_ENDPOINTS("moonshot")[1]
       IN /\ frames' = [frames EXCEPT ![FrameOf(c)] = fr]
          /\ calls' = [calls EXCEPT
                         ![c] = [IdleCall EXCEPT
                                   !.pc = "awaiting",
                                   !.messages = arg.messages,
                                   !.thinking = arg.thinking,
                                   !.requests = <<ToolLoopRequest(url, fr.apiMessages, arg.thinking)>>]]
  /\ UNCHANGED <<gatewayVars, issueCall, imageVars, botVars>>

\* the fetch in flight of invocation c is answered: the code up to the next fetch
MoonshotRound(c) ==
  /\ calls[c].pc = "awaiting"
  /\ \E resp \in ConcurrentResponses :
       LET out == LoopRound(frames[FrameOf(c)], resp)
       IN /\ frames' = [frames EXCEPT ![FrameOf(c)] = out.frame]
          /\ calls' = [calls EXCEPT
                         ![c].pc = out.pc,
                         ![c].result = out.result,
                         ![c].error = out.error,
                         ![c].responses = Append(@, resp),
                         ![c].requests =
                           IF out.pc = "awaiting"
                             THEN Append(@, ToolLoopRequest(calls[c].requests[1].url,
                                                            out.frame.apiMessages,
                                                            calls[c].thinking))
                             ELSE @]
  /\ UNCHANGED <<gatewayVars, issueCall, imageVars, botVars>>

ConcurrentNext ==
  \/ \E c \in CallIds : CallMoonshotWithSearch(c)
  \/ \E c \in CallIds : MoonshotRound(c)

ConcurrentSpec == Init /\ [][ConcurrentNext]_vars

(***************************************************************************)
(* Image Resolver: fetchImageForModel with getFile and                     *)
(* downloadTelegramFile.  One behaviour of ImageSpec is one call; the two  *)
(* awaits are its suspension points.                                       *)
(***************************************************************************)
MAX_IMAGE_BYTES == 5 * 1024 * 1024

BASE_URL == "https://api.telegram.org/bot"

FILE_BASE_URL == "https://api.telegram.org/file/bot"

telegramToken == "123:abc"

\* sizes in bytes: none, small, the limit itself, one above it
ByteSizes == {0, 1024, MAX_IMAGE_BYTES, MAX_IMAGE_BYTES + 1}

\* image: { fileId, mimeType?, fileSize? }
ImageDescriptors ==
  {[fileId |-> "file_1", mimeType |-> mt, fileSize |-> sz] :
     mt \in {None, Some("image/png")},
     sz \in {None} \cup {Some(n) : n \in ByteSizes \cup {6000000}}}

\* the truth value JavaScript gives an optional number in `n && ...`
Truthy(opt) == opt # None /\ opt[1] # 0

\* variant: the declared size is not looked at before the lookup
DeclaredTooLarge_Unchecked(img) == FALSE

\* image.fileSize && image.fileSize > MAX_IMAGE_BYTES
DeclaredTooLarge(img) == Truthy(img.fileSize) /\ img.fileSize[1] > MAX_IMAGE_BYTES

\* variant: the path is not looked at
PathMissing_Unchecked(info) == FALSE

\* !fileInfo.file_path
PathMissing(info) == info.file_path = None \/ info.file_path[1] = ""

\* fileInfo.file_size && fileInfo.file_size > MAX_IMAGE_BYTES
ReportedTooLarge(info) == Truthy(info.file_size) /\ info.file_size[1] > MAX_IMAGE_BYTES

\* variant: the length of the download is trusted to be what was declared
DownloadedTooLarge_Unchecked(dl) == FALSE

\* download.bytes.byteLength > MAX_IMAGE_BYTES
DownloadedTooLarge(dl) == dl.bytes.byteLength > MAX_IMAGE_BYTES

\* variant: the header of the download comes first
MediaType_HeaderFirst(img, dl) == OrElse(dl.contentType, OrElse(img.mimeType, "image/jpeg"))

\* image.mimeType ?? download.contentType ?? "image/jpeg"
MediaType(img, dl) == OrElse(img.mimeType, OrElse(dl.contentType, "image/jpeg"))

\* toBase64: the base64 text of the downloaded bytes
toBase64(bytes) == [encoding |-> "base64", of |-> bytes.content]

\* getFile: the fetch it issues
GetFileCall(token, fileId) ==
  [fn |-> "getFile", url |-> <<BASE_URL, token, "/getFile">>, body |-> Some([file_id |-> fileId])]

\* downloadTelegramFile: the fetch it issues (an undefined path prints as "undefined")
DownloadCall(token, filePath) ==
  [fn |-> "downloadTelegramFile",
   url |-> <<FILE_BASE_URL, token, "/", OrElse(filePath, "undefined")>>,
   body |-> None]

\* what Telegram answers to getFile
GetFileResponses ==
  {TransportFailure,
   [kind |-> "http", status |-> "400", body |-> "{\"ok\":false,\"description\":\"file is too big\"}"]} \cup
  {Ok([ok |-> TRUE, result |-> r]) :
     r \in {None} \cup
           {Some([file_path |-> fp, file_size |-> sz]) :
              fp \in {None, Some(""), Some("photos/file_1.jpg")},
              sz \in {None} \cup {Some(n) : n \in ByteSizes}}}

\* getFile: data.result ?? {}
GetFileResult(data) == OrElse(data.result, [file_path |-> None, file_size |-> None])

\* what Telegram answers to the download: the body and the content-type header
DownloadResponses ==
  {TransportFailure, [kind |-> "http", status |-> "404", body |-> "Not Found"]} \cup
  {Ok([bytes |-> [byteLength |-> n, content |-> "bytes_1"], contentType |-> ct]) :
     n \in ByteSizes, ct \in {None, Some("image/webp")}}

ImageThrow(msg) ==
  /\ imgPc' = "threw"
  /\ imageError' = Some(msg)
  /\ imageData' = None

\* the caller invokes fetchImageForModel; it runs up to the await of getFile
FetchImageForModel ==
  /\ imgPc = "idle"
  /\ \E img \in ImageDescriptors :
       /\ image' = img
       /\ IF DeclaredTooLarge(img)
            THEN /\ ImageThrow(<<"IMAGE_TOO_LARGE">>)
                 /\ UNCHANGED networkCalls
            ELSE /\ imgPc' = "getFile"
                 /\ networkCalls' = Append(networkCalls, GetFileCall(telegramToken, img.fileId))
                 /\ UNCHANGED <<imageData, imageError>>
  /\ UNCHANGED <<fileInfo, download>>
  /\ UNCHANGED <<gatewayVars, issueCall, concurrentVars, botVars>>

\* getFile settles: the code up to the await of downloadTelegramFile
GetFileResponse ==
  /\ imgPc = "getFile"
  /\ \E resp \in GetFileResponses :
       CASE resp.kind = "transport" ->
              /\ ImageThrow(FetchError)
              /\ UNCHANGED <<fileInfo, networkCalls>>
         [] resp.kind = "http" ->
              /\ ImageThrow(ApiError("Telegram", resp))
              /\ UNCHANGED <<fileInfo, networkCalls>>
         [] resp.kind = "ok" ->
              LET info == GetFileResult(resp.data)
              IN /\ fileInfo' = Some(info)
                 /\ IF PathMissing(info)
                      THEN /\ ImageThrow(<<"IMAGE_FILE_PATH_MISSING">>)
                           /\ UNCHANGED networkCalls
                    ELSE IF ReportedTooLarge(info)
                      THEN /\ ImageThrow(<<"IMAGE_TOO_LARGE">>)
                           /\ UNCHANGED networkCalls
                    ELSE /\ imgPc' = "download"
                         /\ networkCalls' =
                              Append(networkCalls, DownloadCall(telegramToken, info.file_path))
                         /\ UNCHANGED <<imageData, imageError>>
  /\ UNCHANGED <<image, download>>
  /\ UNCHANGED <<gatewayVars, issueCall, concurrentVars, botVars>>

\* downloadTelegramFile settles: the code up to the return or throw
DownloadResponse ==
  /\ imgPc = "download"
  /\ \E resp \in DownloadResponses :
       CASE resp.kind = "transport" ->
              /\ ImageThrow(FetchError)
              /\ UNCHANGED download
         [] resp.kind = "http" ->
              /\ ImageThrow(<<"Telegram file download error: ", resp.status, " - ", resp.body>>)
              /\ UNCHANGED download
         [] resp.kind = "ok" ->
              /\ download' = Some(resp.data)
              /\ IF DownloadedTooLarge(resp.data)
                   THEN ImageThrow(<<"IMAGE_TOO_LARGE">>)
                   ELSE /\ imgPc' = "returned"
                        /\ imageData' = Some([mediaType |-> MediaType(image, resp.data),
                                               data |-> toBase64(resp.data.bytes)])
                        /\ imageError' = None
  /\ UNCHANGED <<image, fileInfo, networkCalls>>
  /\ UNCHANGED <<gatewayVars, issueCall, concurrentVars, botVars>>

ImageNext ==
  \/ FetchImageForModel
  \/ GetFileResponse
  \/ DownloadResponse

ImageSpec == Init /\ [][ImageNext]_vars

(***************************************************************************)
(* Vocabulary of the properties, stated on the arguments, the fetches and  *)
(* the history rather than on the code's locals.                           *)
(***************************************************************************)
\* some message of msgs contains an image part
AnyImagePart(msgs) ==
  \E k \in 1..Len(msgs) :
    /\ msgs[k].content.array
    /\ \E j \in 1..Len(msgs[k].content.parts) : msgs[k].content.parts[j].type = "image"

\* options.webSearch is set and true
WebSearchRequested(opts) == opts # None /\ opts[1].webSearch = Some(TRUE)

Called == pc # "idle"

Settled == pc \in {"returned", "threw"}

InToolLoop == adapter = "callMoonshotWithSearch"

ExceededError == Some(<<"moonshot web search exceeded maximum iterations">>)

\* a fetch that carries a tool list goes through a search path
SearchFetch(r) == r.body.tools # None

(***************************************************************************)
(* C1: the effective search flag of a call equals options.webSearch when   *)
(* no message has an image part and is false when some message has one; a  *)
(* call with an image part never runs the tool-call loop or the            *)
(* server-side-search adapter, and none of its fetches carries a tool.     *)
(***************************************************************************)
C1_ImagesDisableSearch ==
  Called =>
    /\ ~AnyImagePart(messages) => (allowWebSearch <=> WebSearchRequested(options))
    /\ AnyImagePart(messages) =>
         /\ ~allowWebSearch
         /\ adapter \notin {"callMoonshotWithSearch", "callResponsesAPIWithSearch"}
         /\ \A k \in 1..Len(requests) : ~SearchFetch(requests[k])

\* a search-capable provider, web search requested, an image present: plain adapter
C1_Witness ==
  /\ pc = "awaiting"
  /\ provider \in {"moonshot", "grok", "openai"}
  /\ WebSearchRequested(options)
  /\ AnyImagePart(messages)
  /\ adapter = "callOpenAICompatible"
  /\ Len(requests) = 1

(***************************************************************************)
(* C2: one tool-loop call sends at most 5 upstream requests; when 5 rounds *)
(* have completed as tool-call rounds the call has failed with the         *)
(* exceeded-maximum-iterations error and has no result.                    *)
(***************************************************************************)
C2_AtMostFiveRequests ==
  InToolLoop =>
    /\ Len(requests) <= 5
    /\ Len(received) <= 5
    /\ Len(received) = 5 /\ received[5].choices[1].finish_reason \notin {"stop", "length"}
                         /\ received[5].choices[1].message.tool_calls # None =>
         /\ pc = "threw"
         /\ error = ExceededError
         /\ result = None

C2_Witness ==
  /\ InToolLoop
  /\ Len(requests) = 5
  /\ Len(received) = 5
  /\ pc = "threw"
  /\ error = ExceededError

(***************************************************************************)
(* C3: under FairSpec (every fetch in flight is eventually answered or     *)
(* fails) every tool-loop call eventually settles, with a result or with   *)
(* an error.                                                               *)
(***************************************************************************)
C3_ToolLoopTerminates == (InToolLoop /\ pc = "awaiting") ~> (InToolLoop /\ Settled)

\* a tool loop that settled with a result after several rounds
C3_Witness ==
  /\ InToolLoop
  /\ pc = "returned"
  /\ Len(requests) = 3

(***************************************************************************)
(* History vocabulary of the tool loop.                                    *)
(***************************************************************************)
Rounds == Len(received)

ChoiceOf(body) == body.choices[1]

LastChoice == ChoiceOf(received[Len(received)])

\* the round's finish signal is "tool_calls" and it carries a tool-call list
ToolCallRound(body) ==
  /\ ChoiceOf(body).finish_reason = "tool_calls"
  /\ ChoiceOf(body).message.tool_calls # None

\* the argument strings of the tool calls a round carries, in list order
ArgumentsOf(body) ==
  IF ChoiceOf(body).message.tool_calls = None THEN <<>>
  ELSE [k \in 1..Len(ChoiceOf(body).message.tool_calls[1]) |->
          ChoiceOf(body).message.tool_calls[1][k].function.arguments]

\* the argument strings of the rounds that satisfy keep, in round order
ArgumentsWhere(keep(_)) ==
  Flatten([k \in 1..Rounds |-> IF keep(received[k]) THEN ArgumentsOf(received[k]) ELSE <<>>])

\* the text of a round, empty when the round has none
TextOf(body) == OrElse(ChoiceOf(body).message.content, "")

\* the texts of all rounds so far, one after the other
AccumulatedText == JoinWith([k \in 1..Rounds |-> TextOf(received[k])], "")

RECURSIVE SumReported(_, _)
\* the sum of one usage field over a set of distinct usage values of usageLog
SumReported(us, field) ==
  IF us = {} THEN 0
  ELSE LET u == CHOOSE x \in us : TRUE
       IN CopiesIn(u, usageLog) * OrElse(UsageField(u, field), 0) +
          SumReported(us \ {u}, field)

\* the sum of one usage field over every round so far
ReportedTokens(field) == SumReported(BagToSet(usageLog), field)

\* what a stop round returns apart from its text
StopOutcome ==
  /\ pc = "returned"
  /\ error = None
  /\ result # None
  /\ result[1].inputTokens = Some(ReportedTokens("prompt_tokens"))
  /\ result[1].outputTokens = Some(ReportedTokens("completion_tokens"))
  /\ result[1].webSearchQueries =
       (IF ArgumentsWhere(ToolCallRound) = <<>> THEN None ELSE Some(ArgumentsWhere(ToolCallRound)))
  /\ Len(requests) = Rounds

StoppedAtLastRound ==
  /\ InToolLoop
  /\ Rounds >= 1
  /\ LastChoice.finish_reason = "stop"
  /\ \A k \in 1..(Rounds - 1) : ToolCallRound(received[k])

(***************************************************************************)
(* C4 as stated: when round k is the first round whose finish signal is    *)
(* "stop", the call returns on that round the text accumulated over the    *)
(* rounds, the token sums and the captured query strings, and exactly k    *)
(* requests have been made.                                                *)
(***************************************************************************)
C4_ReturnsAccumulatedText ==
  StoppedAtLastRound => StopOutcome /\ result[1].text = Some(AccumulatedText)

(***************************************************************************)
(* C4 amended: when round k (1 <= k <= 5) is the first round whose finish  *)
(* signal is "stop", the call returns on that round the text of the stop   *)
(* response (the empty string when it has none; the text of earlier        *)
(* rounds is not part of it), the token sums and the captured query        *)
(* strings; exactly k requests have been made and none is sent afterwards. *)
(***************************************************************************)
C4_StopReturnsOnThatRound ==
  StoppedAtLastRound =>
    /\ Rounds <= 5
    /\ StopOutcome
    /\ result[1].text = Some(TextOf(received[Rounds]))

\* stop on the third round after two tool-call rounds that carried calls
C4_Witness ==
  /\ StoppedAtLastRound
  /\ Rounds = 3
  /\ pc = "returned"
  /\ result[1].webSearchQueries # None
  /\ result[1].inputTokens = Some(15)

(***************************************************************************)
(* C5: the adapter generateResponse invokes is the one of the routing      *)
(* table, every fetch of the call has that adapter's endpoint and tool     *)
(* list, and a single-shot adapter issues exactly one fetch.               *)
(***************************************************************************)
LastToken(url) == url[Len(url)]

C5_RoutingTable ==
  Called /\ provider \in {"claude", "moonshot", "grok", "openai"} =>
    LET search == WebSearchRequested(options) /\ ~AnyImagePart(messages)
        each(P(_)) == Len(requests) >= 1 /\ \A k \in 1..Len(requests) : P(requests[k])
        once(P(_)) == Len(requests) = 1 /\ P(requests[1])
    IN /\ provider = "claude" =>
            /\ adapter = "callClaude"
            /\ once(LAMBDA r : r.url = <<"https://api.anthropic.com/v1/messages">>
                               /\ r.auth = "x-api-key" /\ r.body.tools = None)
       /\ provider = "moonshot" /\ search =>
            /\ adapter = "callMoonshotWithSearch"
            /\ each(LAMBDA r : r.url = <<"https://api.moonshot.ai/v1/chat/completions">>
                               /\ r.body.tools = Some(<<[type |-> "builtin_function",
                                                         function |-> [name |-> "$web_search"]]>>))
       /\ provider = "moonshot" /\ ~search =>
            /\ adapter = "callOpenAICompatible"
            /\ once(LAMBDA r : r.url = <<"https://api.moonshot.ai/v1/chat/completions">>
                               /\ r.body.tools = None)
       /\ provider \in {"grok", "openai"} /\ search =>
            /\ adapter = "callResponsesAPIWithSearch"
            /\ once(LAMBDA r : (provider = "openai" => LastToken(r.url) = "responses")
                               /\ (provider = "grok" => r.url = <<"https://api.x.ai/v1/responses">>)
                               /\ r.body.tools = Some(<<[type |-> "web_search"]>>))
       /\ provider \in {"grok", "openai"} /\ ~search =>
            /\ adapter = "callOpenAICompatible"
            /\ once(LAMBDA r : (provider = "openai" => LastToken(r.url) = "chat/completions")
                               /\ (provider = "grok" =>
                                     r.url = <<"https://api.x.ai/v1/chat/completions">>)
                               /\ r.body.tools = None)

\* openai with search allowed goes to the responses API
C5_Witness ==
  /\ pc = "awaiting"
  /\ provider = "openai"
  /\ WebSearchRequested(options)
  /\ adapter = "callResponsesAPIWithSearch"
  /\ LastToken(requests[1].url) = "responses"

(***************************************************************************)
(* C6: a provider outside {claude, moonshot, grok, openai} makes           *)
(* generateResponse fail with the unknown-provider error, with no fetch    *)
(* and no result.                                                          *)
(***************************************************************************)
C6_UnknownProviderFails ==
  Called /\ provider \notin {"claude", "moonshot", "grok", "openai"} =>
    /\ pc = "threw"
    /\ error = Some(<<"Unknown AI provider: ", provider>>)
    /\ requests = <<>>
    /\ result = None

C6_Witness ==
  /\ provider = "foo"
  /\ WebSearchRequested(options)
  /\ pc = "threw"
  /\ requests = <<>>

(***************************************************************************)
(* C7: every result an adapter returns has a text that is a string, and    *)
(* the text is the empty string when the upstream response has no content. *)
(***************************************************************************)
\* the success body the result was built from has no content to read
ContentOmitted ==
  LET body == received[Len(received)]
  IN CASE adapter = "callClaude" -> body.content = <<>> \/ body.content[1].text = None
       [] adapter = "callOpenAICompatible" ->
            body.choices = <<>> \/ ChoiceOf(body).message.content = None
       [] adapter = "callMoonshotWithSearch" -> ChoiceOf(body).message.content = None
       [] adapter = "callResponsesAPIWithSearch" ->
            \A k \in 1..Len(body.output) :
              (body.output[k].type = "message"
               /\ \A j \in 1..(k - 1) : body.output[j].type # "message") =>
                body.output[k].content = <<>> \/ body.output[k].content[1].text = None

C7_TextIsAString ==
  pc = "returned" =>
    /\ result # None
    /\ result[1].text # None
    /\ ContentOmitted => result[1].text = Some("")

\* a chat-completions response whose content is null
C7_Witness ==
  /\ pc = "returned"
  /\ adapter = "callOpenAICompatible"
  /\ received[1].choices # <<>>
  /\ received[1].choices[1].message.content = None
  /\ result[1].text = Some("")

(***************************************************************************)
(* C8: when the tool loop returns after n rounds, inputTokens is the sum   *)
(* of the prompt-token counts and outputTokens the sum of the              *)
(* completion-token counts reported in rounds 1..n.                        *)
(***************************************************************************)
C8_TokensAreSums ==
  InToolLoop /\ pc = "returned" =>
    /\ BagCardinality(usageLog) = Rounds
    /\ result[1].inputTokens = Some(ReportedTokens("prompt_tokens"))
    /\ result[1].outputTokens = Some(ReportedTokens("completion_tokens"))

\* three rounds, two of which reported usage
C8_Witness ==
  /\ InToolLoop
  /\ pc = "returned"
  /\ Rounds = 3
  /\ CopiesIn(None, usageLog) = 1
  /\ result[1].inputTokens = Some(10)
  /\ result[1].outputTokens = Some(6)

(***************************************************************************)
(* C9 as stated: on every adapter path, the tool loop included, a result   *)
(* built from upstream responses without usage accounting has no           *)
(* inputTokens and no outputTokens.                                        *)
(***************************************************************************)
UsageOmitted ==
  IF InToolLoop THEN BagToSet(usageLog) = {None} ELSE received[1].usage = None

C9_TokensAbsentWithoutUsage ==
  pc = "returned" /\ UsageOmitted =>
    /\ result[1].inputTokens = None
    /\ result[1].outputTokens = None

(***************************************************************************)
(* C10 as stated: the result of the tool loop has webSearchQueries if and  *)
(* only if at least one tool call was received in some round of the call,  *)
(* and then it holds the argument string of every tool call received, in   *)
(* order of receipt.                                                       *)
(***************************************************************************)
AnyRound(body) == TRUE

C10_QueriesIffToolCallReceived ==
  InToolLoop /\ pc = "returned" =>
    /\ result[1].webSearchQueries # None <=> ArgumentsWhere(AnyRound) # <<>>
    /\ result[1].webSearchQueries # None =>
         result[1].webSearchQueries = Some(ArgumentsWhere(AnyRound))

(***************************************************************************)
(* C10 amended: the result of the tool loop has webSearchQueries if and    *)
(* only if at least one tool call was received in a round whose finish     *)
(* signal was "tool_calls" (the tool calls of a response with another      *)
(* finish signal, which ends the loop, are not recorded); it then holds    *)
(* exactly one entry per tool call of those rounds, the raw argument       *)
(* string, in round order and within a round in list order.                *)
(***************************************************************************)
C10_QueriesIffToolCallRound ==
  InToolLoop /\ pc = "returned" =>
    /\ result[1].webSearchQueries # None <=> ArgumentsWhere(ToolCallRound) # <<>>
    /\ result[1].webSearchQueries # None =>
         result[1].webSearchQueries = Some(ArgumentsWhere(ToolCallRound))

\* a round with two calls, then a round with one, then the result
C10_Witness ==
  /\ InToolLoop
  /\ pc = "returned"
  /\ Rounds = 3
  /\ Len(ArgumentsOf(received[1])) = 2
  /\ Len(ArgumentsOf(received[2])) = 1
  /\ result[1].webSearchQueries = Some(ArgumentsOf(received[1]) \o ArgumentsOf(received[2]))

(***************************************************************************)
(* C11: the responses-API adapter returns the text of the first content    *)
(* block of the first output item tagged "message" (the empty string when  *)
(* there is none), and reports search activity only when the output has    *)
(* N >= 1 items tagged "web_search_call", as the one-element sequence      *)
(* <<"web_search (N call(s))">>; with N = 0 webSearchQueries is absent.    *)
(***************************************************************************)
\* the items of output that carry the tag, in order
ItemsTagged(output, tag) == SelectSeq(output, LAMBDA item : item.type = tag)

C11_ResponsesExtraction ==
  pc = "returned" /\ adapter = "callResponsesAPIWithSearch" =>
    LET output == received[1].output
        tagged == ItemsTagged(output, "message")
        N == Len(ItemsTagged(output, "web_search_call"))
        firstText == IF tagged = <<>> \/ tagged[1].content = <<>> THEN ""
                     ELSE OrElse(tagged[1].content[1].text, "")
    IN /\ result[1].text = Some(firstText)
       /\ N = 0 => result[1].webSearchQueries = None
       /\ N >= 1 =>
            result[1].webSearchQueries = Some(<<"web_search (" \o ToString(N) \o " call(s))">>)

\* two search calls in front of two message items: the first item's text is returned
C11_Witness ==
  /\ pc = "returned"
  /\ adapter = "callResponsesAPIWithSearch"
  /\ Len(ItemsTagged(received[1].output, "message")) = 2
  /\ result[1].text = Some("Found it.")
  /\ result[1].webSearchQueries = Some(<<"web_search (2 call(s))">>)

(***************************************************************************)
(* C12: no step of a generateResponse call, through any adapter and any    *)
(* number of tool-loop rounds, successful or failed, changes the           *)
(* caller-supplied messages sequence; the assistant and tool turns the     *)
(* tool loop appends go to its own list only.                              *)
(***************************************************************************)
C12_MessagesNeverChange ==
  [][Called =>
       /\ messages' = messages
       /\ InToolLoop /\ requests' # requests =>
            Len(requests'[Len(requests')].body.messages) >
              Len(requests[Len(requests)].body.messages)]_vars

\* a tool loop that appended the turns of two rounds and then settled
C12_Witness ==
  /\ InToolLoop
  /\ Settled
  /\ Rounds = 3
  /\ messages \in Conversations
  /\ Len(apiMessages) >= Len(messages) + 1 + 4

(***************************************************************************)
(* C13: the gateway never retries.  When an upstream request returns a     *)
(* non-success status or the transport fails, the call ends there with an  *)
(* error and without a result, and no further request is sent; in the tool *)
(* loop a failure on round k (after k - 1 answered rounds) leaves exactly  *)
(* k requests sent.                                                        *)
(***************************************************************************)
\* the rounds of the call that were answered with a success status
AnsweredRounds == BagCardinality(usageLog)

C13_NeverRetries ==
  [][/\ failed = None /\ failed' # None =>
          /\ pc' = "threw"
          /\ error' # None
          /\ result' = None
          /\ requests' = requests
          /\ Len(requests') = IF InToolLoop THEN AnsweredRounds + 1 ELSE 1
     /\ failed # None => pc' = pc /\ requests' = requests /\ result' = None]_vars

\* the third round of a tool loop fails: three requests, no fourth
C13_Witness ==
  /\ InToolLoop
  /\ failed # None
  /\ failed[1].kind = "http"
  /\ AnsweredRounds = 2
  /\ Len(requests) = 3
  /\ pc = "threw"
  /\ result = None

(***************************************************************************)
(* C14: a non-success HTTP status from an upstream call (each AI adapter,  *)
(* and GitHub issue creation) raises the error                             *)
(* "<API name> API error: <status> - <raw body text>" with the status and  *)
(* the unparsed body of that response, after exactly one request for that  *)
(* exchange; no result is built from the body.                             *)
(***************************************************************************)
\* the name each adapter puts in front of its errors
ApiName ==
  CASE adapter = "callClaude" -> "Claude"
    [] adapter = "callMoonshotWithSearch" -> "moonshot"
    [] OTHER -> provider

\* the message the claim describes, for the response that failed
StatusMessage(api, resp) == Some(<<api, " API error: ", resp.status, " - ", resp.body>>)

C14_StatusErrorMessage ==
  /\ failed # None /\ failed[1].kind = "http" =>
       /\ pc = "threw"
       /\ error = StatusMessage(ApiName, failed[1])
       /\ result = None
       /\ Len(requests) = AnsweredRounds + 1
  /\ issueCall.failed # None /\ issueCall.failed[1].kind = "http" =>
       /\ issueCall.pc = "threw"
       /\ issueCall.error = StatusMessage("GitHub", issueCall.failed[1])
       /\ issueCall.result = None
       /\ Len(issueCall.requests) = 1

\* GitHub answers 404 to the creation of an issue
C14_Witness ==
  /\ issueCall.pc = "threw"
  /\ Len(issueCall.requests) = 1
  /\ issueCall.requests[1].url = <<"https://api.github.com/repos/", "owner/nonexistent", "/issues">>
  /\ issueCall.error = Some(<<"GitHub", " API error: ", "404", " - ", "Not Found">>)

(***************************************************************************)
(* C15: concurrent generateResponse calls share no mutable state.  In any  *)
(* interleaving of two tool-loop calls at their fetches, the token totals, *)
(* the search-query list and the running message history of each call are  *)
(* what the call's own arguments and the answers to its own fetches give,  *)
(* as when it runs alone.                                                  *)
(***************************************************************************)
\* the success answers to the fetches of call c, in order
OwnAnswers(c) == SelectSeq(calls[c].responses, LAMBDA r : r.kind = "ok")

\* those of them that are tool-call rounds
OwnToolRounds(c) ==
  SelectSeq(OwnAnswers(c),
            LAMBDA r : /\ r.data.choices # <<>>
                       /\ r.data.choices[1].finish_reason = "tool_calls"
                       /\ r.data.choices[1].message.tool_calls # None)

RECURSIVE OwnTokens(_, _)
\* the sum of one usage field over a sequence of answers
OwnTokens(answers, field) ==
  IF answers = <<>> THEN 0
  ELSE OrElse(UsageField(Head(answers).data.usage, field), 0) + OwnTokens(Tail(answers), field)

RECURSIVE OwnHistory(_, _)
\* the message history after the turns of a sequence of tool-call rounds
OwnHistory(history, rounds) ==
  IF rounds = <<>> THEN history
  ELSE OwnHistory(PushToolTurns(history, Head(rounds).data.choices[1].message), Tail(rounds))

\* the locals of call c are those of a call that ran alone
RunsAsAlone(c) ==
  LET fr == frames[FrameOf(c)]
      rounds == OwnToolRounds(c)
  IN /\ fr.totalInputTokens = OwnTokens(OwnAnswers(c), "prompt_tokens")
     /\ fr.totalOutputTokens = OwnTokens(OwnAnswers(c), "completion_tokens")
     /\ fr.searchQueries = Flatten([k \in 1..Len(rounds) |-> ArgumentsOf(rounds[k].data)])
     /\ fr.apiMessages = OwnHistory(InitialApiMessages(calls[c].messages), rounds)
     /\ fr.i = Len(rounds)
     /\ calls[c].pc = "returned" =>
          /\ calls[c].result[1].inputTokens = Some(fr.totalInputTokens)
          /\ calls[c].result[1].outputTokens = Some(fr.totalOutputTokens)
          /\ calls[c].result[1].webSearchQueries =
               (IF fr.searchQueries = <<>> THEN None ELSE Some(fr.searchQueries))

C15_CallsDoNotInterfere == \A c \in CallIds : calls[c].pc # "idle" => RunsAsAlone(c)

\* both calls are suspended at a fetch after two rounds each, with different totals
C15_Witness ==
  /\ \A c \in CallIds : calls[c].pc = "awaiting" /\ Len(calls[c].responses) = 2
  /\ frames[1].totalInputTokens = 10
  /\ frames[2].totalInputTokens = 5
  /\ Len(frames[1].searchQueries) = 2
  /\ Len(frames[2].searchQueries) = 3
  /\ calls[1].messages # calls[2].messages

(***************************************************************************)
(* C16 as stated: the behaviour of the gateway depends only on its         *)
(* explicit parameters.  Two generateResponse calls with the same          *)
(* provider, apiKey, model, systemPrompt, messages and options issue their *)
(* request to the same URL with the same body, whatever the environment of *)
(* the process contains.                                                   *)
(***************************************************************************)
C16_RequestIgnoresEnvironment ==
  requests # <<>> =>
    /\ twinRequest # None
    /\ twinRequest[1].url = requests[1].url
    /\ twinRequest[1].body = requests[1].body

(***************************************************************************)
(* Vocabulary of the image properties.                                     *)
(***************************************************************************)
ImageCalled == imgPc # "idle"

\* 5 MiB in bytes
FiveMiB == 5 * 1024 * 1024

TooLargeError == Some(<<"IMAGE_TOO_LARGE">>)

PathMissingError == Some(<<"IMAGE_FILE_PATH_MISSING">>)

\* the number of Telegram calls of one kind made so far
CallsTo(fn) == Len(SelectSeq(networkCalls, LAMBDA c : c.fn = fn))

\* the size the caller declared exceeds the limit
DeclaredOver == ImageCalled /\ image.fileSize # None /\ image.fileSize[1] > FiveMiB

\* the lookup succeeded
LookedUp == fileInfo # None

\* the size the lookup reported exceeds the limit
ReportedOver == LookedUp /\ fileInfo[1].file_size # None /\ fileInfo[1].file_size[1] > FiveMiB

\* the lookup gave no path that can be retrieved
NoPath == LookedUp /\ (fileInfo[1].file_path = None \/ fileInfo[1].file_path = Some(""))

\* the bytes that arrived exceed the limit
DownloadedOver == download # None /\ download[1].bytes.byteLength > FiveMiB

FailedTooLarge == imgPc = "threw" /\ imageError = TooLargeError /\ imageData = None

(***************************************************************************)
(* C17: when the declared size of the attachment exceeds 5 MiB,            *)
(* fetchImageForModel fails with the image-too-large error before any      *)
(* network call: neither getFile nor the download is attempted.            *)
(***************************************************************************)
C17_DeclaredSizeFailsFirst ==
  DeclaredOver =>
    /\ FailedTooLarge
    /\ networkCalls = <<>>
    /\ fileInfo = None
    /\ download = None

\* the scenario of the spec: a declared size of 6,000,000 bytes
C17_Witness ==
  /\ ImageCalled
  /\ image.fileSize = Some(6000000)
  /\ FailedTooLarge
  /\ networkCalls = <<>>

(***************************************************************************)
(* C18 as stated: an image larger than 5 MiB by declared size, by          *)
(* server-reported size or by downloaded byte length always fails with the *)
(* image-too-large error, whatever the other descriptor and lookup fields  *)
(* are; no download is made when the declared or the reported size         *)
(* triggers and exactly one when only the downloaded length exceeds the    *)
(* limit.                                                                  *)
(***************************************************************************)
C18_TooLargeAlwaysFails ==
  /\ DeclaredOver \/ ReportedOver \/ DownloadedOver => FailedTooLarge
  /\ DeclaredOver \/ ReportedOver => CallsTo("downloadTelegramFile") = 0
  /\ DownloadedOver => CallsTo("downloadTelegramFile") = 1

(***************************************************************************)
(* C18 amended: an image larger than 5 MiB by declared size, by            *)
(* server-reported size when the lookup also returned a path, or by        *)
(* downloaded byte length always fails with the image-too-large error (a   *)
(* lookup without a path fails with the metadata-missing error whatever    *)
(* size it reports); no download is made when the declared or the reported *)
(* size exceeds the limit and exactly one when only the downloaded length  *)
(* does, and the downloaded length is checked whatever the declared and    *)
(* reported sizes were.                                                    *)
(***************************************************************************)
C18_TooLargeFailsUnlessNoPath ==
  /\ DeclaredOver \/ (ReportedOver /\ ~NoPath) \/ DownloadedOver => FailedTooLarge
  /\ ReportedOver /\ NoPath => imgPc = "threw" /\ imageError = PathMissingError
  /\ DeclaredOver \/ ReportedOver => CallsTo("downloadTelegramFile") = 0
  /\ DownloadedOver =>
       /\ CallsTo("downloadTelegramFile") = 1
       /\ ~DeclaredOver /\ ~ReportedOver

\* a small declared size, no reported size, and a download above the limit
C18_Witness ==
  /\ ImageCalled
  /\ image.fileSize = Some(1024)
  /\ LookedUp
  /\ fileInfo[1].file_size = None
  /\ DownloadedOver
  /\ FailedTooLarge
  /\ CallsTo("downloadTelegramFile") = 1

(***************************************************************************)
(* C19: when the file-location lookup succeeds but returns no retrievable  *)
(* path, fetchImageForModel fails with the metadata-missing error          *)
(* (IMAGE_FILE_PATH_MISSING) and no download is attempted.                 *)
(***************************************************************************)
C19_NoPathFails ==
  NoPath =>
    /\ imgPc = "threw"
    /\ imageError = PathMissingError
    /\ imageData = None
    /\ CallsTo("getFile") = 1
    /\ CallsTo("downloadTelegramFile") = 0

\* the lookup answers without a result object
C19_Witness ==
  /\ LookedUp
  /\ fileInfo[1].file_path = None
  /\ fileInfo[1].file_size = None
  /\ imgPc = "threw"
  /\ imageError = PathMissingError
  /\ Len(networkCalls) = 1

(***************************************************************************)
(* C20: on success fetchImageForModel returns as mediaType the MIME type   *)
(* the caller declared when there is one, otherwise the content-type       *)
(* header of the download when there is one, otherwise "image/jpeg".       *)
(***************************************************************************)
C20_MediaTypePriority ==
  imgPc = "returned" =>
    /\ imageData # None
    /\ image.mimeType # None => imageData[1].mediaType = image.mimeType[1]
    /\ image.mimeType = None /\ download[1].contentType # None =>
         imageData[1].mediaType = download[1].contentType[1]
    /\ image.mimeType = None /\ download[1].contentType = None =>
         imageData[1].mediaType = "image/jpeg"

\* no declared type: the header of the download decides
C20_Witness ==
  /\ imgPc = "returned"
  /\ image.mimeType = None
  /\ download[1].contentType = Some("image/webp")
  /\ imageData[1].mediaType = "image/webp"

(***************************************************************************)
(* processMessage: the scheduled action that answers one inbound message.  *)
(* One run is followed in processCall; the Telegram calls, the image       *)
(* resolver, the gateway and the store mutation are its collaborators and  *)
(* each of their outcomes is a choice.                                     *)
(***************************************************************************)

\* the scaled-down character budget of truncateResponse, in words
MaxResponseWords == 3

IMAGE_TOO_LARGE_MESSAGE == <<"That", "image", "is", "too", "large", "to", "process.">>

IMAGE_UNSUPPORTED_MESSAGE == <<"Image", "understanding", "isn't", "supported">>

IMAGE_DOWNLOAD_FAILED_MESSAGE == <<"I", "couldn't", "download", "that", "image.">>

\* the text the outer catch of processMessage sends
PROCESSING_ERROR_MESSAGE == <<"Sorry,", "I", "encountered", "an", "error">>

\* the rows messages.getRecent returns: stored messages, oldest first
StoredUser(name, text, id) ==
  [role |-> "user", text |-> text, userName |-> Some(name), telegramMessageId |-> Some(id)]

StoredAssistant(text) ==
  [role |-> "assistant", text |-> text, userName |-> None, telegramMessageId |-> None]

\* the histories the action reads: empty, the image message alone, the
\* question that follows an image prompt, the image message in the middle
RecentHistories ==
  {<<>>,
   <<StoredUser("Alice", "[Image] what is this", 42)>>,
   <<StoredUser("Bob", "hello", 40), StoredAssistant("hi Bob"),
     StoredUser("Alice", "describe it", 42)>>,
   <<StoredUser("Alice", "[Image]", 41), StoredAssistant("What would you like to know?"),
     StoredUser("Bob", "later", 43)>>}

ImageArgs == {None, Some([fileId |-> "file-123", mimeType |-> Some("image/png")])}

\* args of processMessage
ProcessArgs ==
  {[messageId |-> id, messageText |-> t, userName |-> "Alice", image |-> img] :
     id \in {41, 42, 99}, t \in {"", "what is this"}, img \in ImageArgs}

\* process.env.AI_PROVIDER ?? "moonshot"
AiProviderOf(env) == OrElse(env, "moonshot")

AiProviderEnv == {None, Some("openai"), Some("claude"), Some("foo")}

\* formatConversation, one row: a user turn carries its author, "[name]: text"
formatMessage(msg) ==
  IF msg.role = "user"
    THEN [role |-> "user", content |-> Str("[" \o OrElse(msg.userName, "") \o "]: " \o msg.text)]
    ELSE [role |-> "assistant", content |-> Str(msg.text)]

\* formatConversation: one turn per row, in order
formatConversation(rows) == MapSeq(formatMessage, rows)

\* recentMessages.findIndex(msg => msg.telegramMessageId === args.messageId &&
\* msg.role === "user"): the first match, 0 when there is none (-1 in the code)
TargetIndex(rows, messageId) ==
  LET hits == {k \in 1..Len(rows) :
                 rows[k].telegramMessageId = Some(messageId) /\ rows[k].role = "user"}
  IN IF hits = {} THEN 0 ELSE CHOOSE k \in hits : \A j \in hits : k <= j

\* fallbackText
FallbackText(args) ==
  IF args.messageText # ""
    THEN "[" \o args.userName \o "]: [Image] " \o args.messageText
    ELSE "[" \o args.userName \o "]: [Image]"

\* variant: the caption is always the synthesized one
TextForImage_Fallback(conversation, targetIndex, args) == FallbackText(args)

\* textForImage
TextForImage(conversation, targetIndex, args) ==
  IF targetIndex >= 1 /\ ~conversation[targetIndex].content.array
    THEN conversation[targetIndex].content.text
    ELSE FallbackText(args)

\* the conversation after the image branch: the located turn replaced, or a turn pushed
WithImage(conversation, targetIndex, args, resolved) ==
  LET imageContent ==
        Parts(<<TextPart(TextForImage(conversation, targetIndex, args)),
                ImagePart(resolved.mediaType, resolved.data)>>)
      turn == [role |-> "user", content |-> imageContent]
  IN IF targetIndex >= 1
       THEN [conversation EXCEPT ![targetIndex] = turn]
       ELSE Append(conversation, turn)

\* sendMessage: the body it posts
SendMessageBody(text, replyToMessageId) ==
  [text |-> text,
   reply_parameters |->
     IF replyToMessageId # 0 THEN Some([message_id |-> replyToMessageId]) ELSE None]

\* message.toLowerCase(), word by word
toLowerCase(message) ==
  MapSeq(LAMBDA w : CASE w = "Image" -> "image" [] w = "Vision" -> "vision" [] OTHER -> w,
         message)

\* word.includes(needle) for the words that occur
WordIncludes(word, needle) ==
  \/ word = needle
  \/ <<word, needle>> \in {<<"image_url", "image">>, <<"images", "image">>}

\* lower.includes(needle), the needle a sequence of words
Includes(lower, needle) ==
  \E k \in 1..Len(lower) :
    /\ k + Len(needle) - 1 <= Len(lower)
    /\ \A j \in 1..Len(needle) : WordIncludes(lower[k + j - 1], needle[j])

\* isImageUnsupportedError
isImageUnsupportedError(message) ==
  LET lower == toLowerCase(message)
  IN /\ Includes(lower, <<"image">>)
     /\ \E needle \in {<<"unsupported">>, <<"not", "supported">>, <<"not", "allowed">>,
                       <<"vision">>, <<"image_url">>, <<"multimodal">>,
                       <<"content", "type">>} :
          Includes(lower, needle)

\* the citation markers a provider inserts
CitationMarks == {"[1]", "[2]"}

\* stripCitations: the text without its citation markers
stripCitations(text) == SelectSeq(text, LAMBDA w : w \notin CitationMarks)

\* truncateResponse: a text over the budget is cut and marked as cut
truncateResponse(text) ==
  IF Len(text) <= MaxResponseWords
    THEN text
    ELSE SubSeq(text, 1, MaxResponseWords - 1) \o <<"...">>

\* variant: the budget is applied to the raw text
PostProcess_TruncateFirst(text) == stripCitations(truncateResponse(text))

\* responseText = truncateResponse(stripCitations(aiResponse.text))
PostProcess(text) == truncateResponse(stripCitations(text))

\* the texts a provider answers with: short, cited, long and cited
AiTexts ==
  {<<"Hello!">>, <<"TypeScript", "[1]", "is", "typed">>, <<"a", "b", "c", "d", "[2]">>}

\* the messages generateResponse rejects with once an adapter was called
AiErrors(p) ==
  {<<"fetch", "failed">>,
   <<p, "API", "error:", "500", "-", "Internal", "Server", "Error">>,
   <<p, "API", "error:", "400", "-", "Image", "input", "is", "not", "supported">>,
   <<p, "API", "error:", "400", "-", "unknown", "variant", "image_url">>}

\* the number of fetches one call of the adapter issues
RequestCounts(a) ==
  CASE a = "none" -> {0}
    [] a = "callMoonshotWithSearch" -> 1..MAX_TOOL_ITERATIONS
    [] OTHER -> {1}

\* generateResponse(aiProvider, ..., conversation, {webSearch, thinking}) as its caller
\* sees it: the fetches it issued and the text it resolved or the error it rejected with
GenerateOutcomes(p, ws, conversation) ==
  LET a == Dispatch(p, AllowWebSearch(Some([webSearch |-> Some(ws), thinking |-> None]),
                                      conversation))
  IN IF a = "none"
       THEN {[kind |-> "threw", requests |-> 0, text |-> <<>>,
              message |-> <<"Unknown", "AI", "provider:", p>>]}
       ELSE {[kind |-> "ok", requests |-> n, text |-> t, message |-> <<>>] :
               n \in RequestCounts(a), t \in AiTexts}
            \cup {[kind |-> "threw", requests |-> n, text |-> <<>>, message |-> m] :
                    n \in RequestCounts(a), m \in AiErrors(p)}

\* what fetchImageForModel resolves or rejects with
ImageOutcomes ==
  {[kind |-> "ok", imageData |-> Some([mediaType |-> "image/png", data |-> "AQID"]),
    message |-> <<>>],
   [kind |-> "threw", imageData |-> None, message |-> <<"IMAGE_TOO_LARGE">>],
   [kind |-> "threw", imageData |-> None, message |-> <<"IMAGE_FILE_PATH_MISSING">>],
   [kind |-> "threw", imageData |-> None, message |-> FetchError],
   [kind |-> "threw", imageData |-> None,
    message |-> <<"Telegram file download error: ", "404", " - ", "Not Found">>]}

\* the outcomes of the (at most two) sendMessage calls of one step
SendOutcomes == [1..2 -> BOOLEAN]

\* sendMessage(token, chatId, text, {replyToMessageId: args.messageId, ...}) is called
Sent(call, text) ==
  [call EXCEPT !.sent = Append(@, SendMessageBody(text, call.args[1].messageId)),
               !.log = Append(@, "sendMessage")]

\* variant: the outer catch only logs
OuterCatch_Silent(call, fault, sendOk) ==
  [call EXCEPT !.pc = "done", !.faults = @ \cup {fault}]

\* the outer catch: the apology is sent; the action rejects when that send fails
OuterCatch(call, fault, sendOk) ==
  [Sent(call, PROCESSING_ERROR_MESSAGE) EXCEPT
     !.pc = "done",
     !.faults = @ \cup {fault} \cup (IF sendOk THEN {} ELSE {"sendMessage"}),
     !.rejected = ~sendOk]

\* variant: the try block ends without a message
Reply_Silent(call, text, oks) == [call EXCEPT !.pc = "done"]

\* a sendMessage inside the try block: the action ends, through the outer catch
\* when the send fails
Reply(call, text, oks) ==
  IF oks[1]
    THEN [Sent(call, text) EXCEPT !.pc = "done"]
    ELSE OuterCatch(Sent(call, text), "sendMessage", oks[2])

\* generateResponse is called
StartGenerate(call) ==
  [call EXCEPT !.pc = "generateResponse", !.log = Append(@, "generateResponse")]

\* the scheduler runs processMessage; it runs up to the await of sendChatAction
ProcessMessage ==
  /\ processCall.pc = "idle"
  /\ \E args \in ProcessArgs, env \in AiProviderEnv, ws \in BOOLEAN :
       processCall' =
         [processCall EXCEPT !.pc = "sendChatAction", !.args = Some(args),
                             !.aiProvider = AiProviderOf(env), !.webSearch = ws,
                             !.log = <<"sendChatAction">>]
  /\ UNCHANGED <<gatewayVars, issueCall, imageVars, concurrentVars, webhook, processIssueCall>>

\* sendChatAction settles; the history is read and formatted, then the image is
\* fetched or the gateway called
ChatActionResponse ==
  /\ processCall.pc = "sendChatAction"
  /\ \E ok \in BOOLEAN, queryOk \in BOOLEAN, rows \in RecentHistories,
        oks \in SendOutcomes :
       processCall' =
         IF ~ok
           THEN OuterCatch(processCall, "sendChatAction", oks[1])
         ELSE IF ~queryOk
           THEN OuterCatch(processCall, "getRecent", oks[1])
           ELSE LET c == [processCall EXCEPT !.recentMessages = rows,
                                             !.conversation = formatConversation(rows)]
                IN IF c.args[1].image # None
                     THEN [c EXCEPT !.pc = "fetchImageForModel",
                                    !.log = Append(@, "fetchImageForModel")]
                     ELSE StartGenerate(c)
  /\ UNCHANGED <<gatewayVars, issueCall, imageVars, concurrentVars, webhook, processIssueCall>>

\* variant: every failure is reported as a failed download
ImageFailureMessage_AlwaysDownload(message) == IMAGE_DOWNLOAD_FAILED_MESSAGE

\* the catch block of the image fetch: the text it sends for the error it caught
ImageFailureMessage(message) ==
  IF message = <<"IMAGE_TOO_LARGE">>
    THEN IMAGE_TOO_LARGE_MESSAGE
    ELSE IMAGE_DOWNLOAD_FAILED_MESSAGE

\* fetchImageForModel settles: the image is spliced into the conversation, or the
\* user is told why it could not be used
FetchImageResult ==
  /\ processCall.pc = "fetchImageForModel"
  /\ \E out \in ImageOutcomes, oks \in SendOutcomes :
       LET args == processCall.args[1]
           targetIndex == TargetIndex(processCall.recentMessages, args.messageId)
           c == [processCall EXCEPT !.faults = @ \cup {"fetchImageForModel"},
                                    !.imageFailure = Some(out.message)]
       IN processCall' =
            IF out.kind = "ok"
              THEN StartGenerate(
                     [processCall EXCEPT
                        !.conversation = WithImage(@, targetIndex, args, out.imageData[1])])
              ELSE Reply(c, ImageFailureMessage(out.message), oks)
  /\ UNCHANGED <<gatewayVars, issueCall, imageVars, concurrentVars, webhook, processIssueCall>>

\* generateResponse settles: the answer is post-processed, stored and sent, or the
\* failure is reported
GenerateResult ==
  /\ processCall.pc = "generateResponse"
  /\ \E out \in GenerateOutcomes(processCall.aiProvider, processCall.webSearch,
                                 processCall.conversation),
        storeOk \in BOOLEAN, oks \in SendOutcomes :
       LET args == processCall.args[1]
           c == [processCall EXCEPT !.aiRequests = out.requests]
           threw == [c EXCEPT !.aiError = Some(out.message),
                              !.faults = @ \cup {"generateResponse"}]
           responseText == PostProcess(out.text)
           answered == [c EXCEPT !.aiResponse = Some(out.text), !.log = Append(@, "store")]
       IN processCall' =
            IF out.kind = "threw"
              THEN IF args.image # None /\ isImageUnsupportedError(out.message)
                     THEN Reply(threw, IMAGE_UNSUPPORTED_MESSAGE, oks)
                     ELSE OuterCatch(threw, "generateResponse", oks[1])
              ELSE IF ~storeOk
                THEN OuterCatch(answered, "store", oks[1])
                ELSE Reply([answered EXCEPT
                              !.stored = Append(@, [role |-> "assistant",
                                                    text |-> responseText])],
                           responseText, oks)
  /\ UNCHANGED <<gatewayVars, issueCall, imageVars, concurrentVars, webhook, processIssueCall>>

ProcessNext == ProcessMessage \/ ChatActionResponse \/ FetchImageResult \/ GenerateResult

ProcessMessageSpec == Init /\ [][ProcessNext]_vars

(***************************************************************************)
(* Claims about processMessage.                                            *)
(***************************************************************************)

\* the run has passed the image branch with a resolved image
ImageSpliced ==
  /\ processCall.args # None
  /\ processCall.args[1].image # None
  /\ \E k \in 1..Len(processCall.log) : processCall.log[k] = "generateResponse"

\* the positions of the user turns stored under the triggering message id
TurnsOfMessage ==
  {k \in 1..Len(processCall.recentMessages) :
     /\ processCall.recentMessages[k].role = "user"
     /\ processCall.recentMessages[k].telegramMessageId = Some(processCall.args[1].messageId)}

\* the caption "[<user>]: [Image] <text>", the text and its blank left out when empty
SynthesizedCaption ==
  "[" \o processCall.args[1].userName \o "]: [Image]"
    \o (IF processCall.args[1].messageText = "" THEN ""
        ELSE " " \o processCall.args[1].messageText)

\* a turn whose content is a text part followed by an image part
IsTextAndImage(turn, text) ==
  /\ turn.role = "user"
  /\ turn.content.array
  /\ Len(turn.content.parts) = 2
  /\ turn.content.parts[1] = TextPart(text)
  /\ turn.content.parts[2].type = "image"

\* C21: once the image of message m is resolved, the conversation handed to the
\* gateway is the formatted history with the first user turn stored under m replaced,
\* in place, by [its own text, the image], every other turn and the length as
\* they were; when no such turn exists, the history is followed by one turn whose
\* text part is the synthesized caption.
C21_ImageSubstitution ==
  ImageSpliced =>
    LET formatted == formatConversation(processCall.recentMessages)
        conversation == processCall.conversation
    IN IF TurnsOfMessage # {}
         THEN LET k == CHOOSE n \in TurnsOfMessage : \A j \in TurnsOfMessage : n <= j
              IN /\ Len(conversation) = Len(formatted)
                 /\ IsTextAndImage(conversation[k], formatted[k].content.text)
                 /\ \A j \in 1..Len(formatted) : j # k => conversation[j] = formatted[j]
         ELSE /\ Len(conversation) = Len(formatted) + 1
              /\ SubSeq(conversation, 1, Len(formatted)) = formatted
              /\ IsTextAndImage(conversation[Len(conversation)], SynthesizedCaption)

\* an image spliced into the last of three turns, whose stored text is not the caption
C21_Witness ==
  /\ ImageSpliced
  /\ Len(processCall.recentMessages) = 3
  /\ TurnsOfMessage = {3}
  /\ processCall.args[1].messageText = "what is this"
  /\ processCall.conversation[3].content.parts[1].text = "[Alice]: describe it"

\* the run is over and no external call of it failed
AllSucceeded == processCall.pc = "done" /\ processCall.faults = {}

\* the typing action, the generation, the store and the sends of the run, in order
MainSteps ==
  SelectSeq(processCall.log,
            LAMBDA e : e \in {"sendChatAction", "generateResponse", "store", "sendMessage"})

\* C22: a run in which every external call succeeded did, in this order and once
\* each: the typing chat action, the generation, the store of one assistant message,
\* one sendMessage that replies to the triggering message id; the text stored is
\* the text sent, and it is the generated text with its citations stripped first
\* and the budget applied second.
C22_SuccessfulRun ==
  AllSucceeded =>
    /\ MainSteps = <<"sendChatAction", "generateResponse", "store", "sendMessage">>
    /\ Len(processCall.stored) = 1
    /\ processCall.stored[1].role = "assistant"
    /\ Len(processCall.sent) = 1
    /\ processCall.sent[1].reply_parameters =
         Some([message_id |-> processCall.args[1].messageId])
    /\ processCall.sent[1].text = processCall.stored[1].text
    /\ processCall.stored[1].text =
         truncateResponse(stripCitations(processCall.aiResponse[1]))

\* a successful run whose answer carried a citation and is within the budget only
\* once the citation is gone
C22_Witness ==
  /\ AllSucceeded
  /\ processCall.args[1].messageId = 42
  /\ processCall.aiResponse # None
  /\ \E k \in 1..Len(processCall.aiResponse[1]) :
       processCall.aiResponse[1][k] \in CitationMarks
  /\ Len(processCall.aiResponse[1]) > MaxResponseWords
  /\ Len(processCall.stored[1].text) = MaxResponseWords
  /\ processCall.stored[1].text[MaxResponseWords] # "..."

\* the texts that tell the user the generation failed
GenerationErrorTexts == {PROCESSING_ERROR_MESSAGE, IMAGE_UNSUPPORTED_MESSAGE}

\* C23: when generateResponse fails, no assistant message is stored and the user is
\* sent an error message and nothing but error messages; a message is stored only
\* after generateResponse resolved.
C23_GenerationFailure ==
  /\ (processCall.pc = "done" /\ processCall.aiError # None) =>
       /\ processCall.stored = <<>>
       /\ processCall.sent # <<>>
       /\ \A k \in 1..Len(processCall.sent) :
            processCall.sent[k].text \in GenerationErrorTexts
  /\ processCall.stored # <<>> =>
       processCall.aiResponse # None /\ processCall.aiError = None

\* a run whose only request to the provider failed and that apologised
C23_Witness ==
  /\ processCall.pc = "done"
  /\ processCall.aiError # None
  /\ processCall.aiRequests = 1
  /\ processCall.faults = {"generateResponse"}
  /\ Len(processCall.sent) = 1
  /\ processCall.sent[1].text = PROCESSING_ERROR_MESSAGE

\* C24: a run with a resolved image under provider moonshot ends with exactly one
\* message sent, the image-unsupported message, and without any request to the
\* provider.
C24_UnsupportedProviderMakesNoRequest ==
  (ImageSpliced /\ processCall.aiProvider = "moonshot" /\ processCall.pc = "done") =>
    /\ processCall.aiRequests = 0
    /\ Len(processCall.sent) = 1
    /\ processCall.sent[1].text = IMAGE_UNSUPPORTED_MESSAGE

(***************************************************************************)
(* The Telegram webhook route.  Requests are handled one after the other;  *)
(* webhook holds the message table, the Telegram messages sent, the        *)
(* scheduled actions, and the request handled last with its response       *)
(* status and its effects in order.                                        *)
(***************************************************************************)

\* the number of webhook requests followed
MaxUpdates == 2

BOT_USERNAME == "nerdbot"

IMAGE_QUESTION_PROMPT == <<"What", "should", "I", "look", "for", "in", "this", "image?">>

HELP_MESSAGE == <<"Hi!", "I'm", "an", "AI", "assistant.">>

RESET_MESSAGE == <<"Conversation", "history", "cleared.">>

ISSUE_DENIED_MESSAGE == <<"You", "don't", "have", "permission", "to", "create", "issues.">>

RATE_LIMIT_MESSAGE == <<"You're", "sending", "messages", "too", "fast.">>

\* process.env.ALLOWED_USER_IDS and ALLOWED_GROUP_IDS of the deployment, as id sets
ALLOWED_USER_IDS == {1, 2, 3}

ALLOWED_GROUP_IDS == {100, 200}

\* process.env.ALLOWED_ISSUE_USER_IDS: unset, without the sender, with the sender
IssueAllowlists == {None, Some({99, 88}), Some({1, 99})}

\* message.text ?? message.caption ?? "", word by word
UpdateTexts ==
  {<<>>, <<"hello">>, <<"@nerdbot", "hello">>, <<"/reset">>,
   <<"/issue", "fix", "the", "login", "bug">>, <<"/help">>, <<"/foo">>}

\* message.chat, message.from.id and message.message_thread_id
UpdateChats ==
  {[chat |-> [id |-> 100, type |-> "group"], from |-> 1, message_thread_id |-> None],
   [chat |-> [id |-> 100, type |-> "group"], from |-> 1, message_thread_id |-> Some(7)],
   [chat |-> [id |-> 999, type |-> "group"], from |-> 1, message_thread_id |-> None],
   [chat |-> [id |-> 1, type |-> "private"], from |-> 1, message_thread_id |-> None],
   [chat |-> [id |-> 999, type |-> "private"], from |-> 999, message_thread_id |-> None]}

\* message.reply_to_message: none, or the bot's image question
ReplyTargets ==
  {None,
   Some([from |-> [first_name |-> "Nerdbot", username |-> "nerdbot", is_bot |-> TRUE],
         text |-> IMAGE_QUESTION_PROMPT])}

\* chat 100 outside a forum topic, where every kind of update is tried
InMainChat(m) == m.chat.id = 100 /\ m.message_thread_id = None

\* update.message, message_id left to the handler's caller: plain text, mentions,
\* /reset and /issue in every chat; photos, replies and the other commands in chat 100
UpdateMessages ==
  {m \in {[chat |-> c.chat, from |-> [id |-> c.from, first_name |-> "Alice"],
           message_thread_id |-> c.message_thread_id, text |-> t, photo |-> p,
           reply_to_message |-> r] :
            c \in UpdateChats, t \in UpdateTexts, p \in BOOLEAN, r \in ReplyTargets} :
     /\ m.reply_to_message # None => m.text = <<"hello">> /\ InMainChat(m)
     /\ m.photo => m.text \in {<<>>, <<"hello">>, <<"@nerdbot", "hello">>} /\ InMainChat(m)
     /\ m.text \in {<<>>, <<"/help">>, <<"/foo">>} => InMainChat(m)}

\* a request: the configured secret, the secret header, whether the body parses,
\* the update's message, and the issue allowlist of the deployment
WebhookRequest(secret, header, json, message, allowlist) ==
  [secret |-> secret, headerSecret |-> header, json |-> json, message |-> message,
   issueAllowlist |-> allowlist]

\* the requests sent to the route: authentic updates, updates without a message,
\* unparsable bodies, wrong and missing secrets, a deployment without a secret
WebhookRequests ==
  {req \in {WebhookRequest(Some("test-secret"), Some("test-secret"), TRUE, Some(m), a) :
              m \in UpdateMessages, a \in IssueAllowlists} :
     \/ req.issueAllowlist = None
     \/ /\ req.message[1].text # <<>>
        /\ req.message[1].text[1] = "/issue"
        /\ InMainChat(req.message[1])}
  \cup {WebhookRequest(Some("test-secret"), h, j, m, None) :
          h \in {Some("test-secret"), Some("wrong-secret"), None}, j \in BOOLEAN,
          m \in {None} \cup {Some(x) : x \in {y \in UpdateMessages :
                               /\ InMainChat(y)
                               /\ ~y.photo
                               /\ y.text \in {<<"@nerdbot", "hello">>, <<"/reset">>}}}}
  \cup {WebhookRequest(s, Some("wrong-secret"), TRUE, Some(m), None) :
          s \in {None, Some("")},
          m \in {y \in UpdateMessages :
                   InMainChat(y) /\ ~y.photo /\ y.text = <<"@nerdbot", "hello">>}}

\* variant: the secret header is not compared
SecretRejected_Unchecked(req) == FALSE

\* secret && headerSecret !== secret
SecretRejected(req) ==
  /\ req.secret # None
  /\ req.secret # Some("")
  /\ req.headerSecret # req.secret

\* buildUserName(first_name, last_name) of a sender without a last name
buildUserName(from) == from.first_name

\* formatReplyContext(name, text): '[Replying to name: "text"]' and a line break
formatReplyContext(name, text) ==
  <<"[Replying", "to", name \o ":", "\"">> \o text \o <<"\"]", "\n">>

\* replyContext
ReplyContext(m) ==
  IF m.reply_to_message # None /\ m.reply_to_message[1].text # <<>>
    THEN formatReplyContext(buildUserName(m.reply_to_message[1].from),
                            m.reply_to_message[1].text)
    ELSE <<>>

\* stripMention(messageText, botUsername): the text without the bot's mention
stripMention(text, botUsername) == SelectSeq(text, LAMBDA w : w # "@" \o botUsername)

\* storedText
StoredText(m) ==
  LET cleanText == stripMention(m.text, BOT_USERNAME)
  IN IF m.photo
       THEN ReplyContext(m) \o <<"[Image]">> \o cleanText
       ELSE ReplyContext(m) \o cleanText

\* isAllowedUser / isAllowedChat: the id is on the list
isAllowed(id, list) == id \in list

\* variant: groups are not checked against ALLOWED_GROUP_IDS
Blocked_GroupsOpen(m) ==
  m.chat.type = "private" /\ ~isAllowed(m.from.id, ALLOWED_USER_IDS)

\* step 3 of the handler: the allowlist checks reject the update
Blocked(m) ==
  \/ m.chat.type = "private" /\ ~isAllowed(m.from.id, ALLOWED_USER_IDS)
  \/ m.chat.type # "private" /\ ~isAllowed(m.chat.id, ALLOWED_GROUP_IDS)

\* isReplyToBot
IsReplyToBot(m) ==
  /\ m.reply_to_message # None
  /\ m.reply_to_message[1].from.is_bot
  /\ m.reply_to_message[1].from.username = BOT_USERNAME

\* isReplyToImagePrompt
IsReplyToImagePrompt(m) ==
  IsReplyToBot(m) /\ m.reply_to_message[1].text = IMAGE_QUESTION_PROMPT

\* messageText.startsWith("/")
StartsWithSlash(text) ==
  text # <<>> /\ text[1] \in {"/start", "/help", "/reset", "/issue", "/foo"}

\* parseCommand(messageText): the command word
parseCommand(text) == text[1]

\* shouldRespond(chatType, messageText, botUsername, isReplyToBot): private chats,
\* replies to the bot, mentions of the bot and commands are addressed to it
shouldRespond(chatType, text, botUsername, isReplyToBot) ==
  \/ chatType = "private"
  \/ isReplyToBot
  \/ \E k \in 1..Len(text) : text[k] = "@" \o botUsername
  \/ StartsWithSlash(text)

\* extractIssueDescription(messageText): the text after the command word
extractIssueDescription(text) == Tail(text)

\* message.message_id of the update handled after n others
MessageId(n) == 10 + n

\* the arguments of messages.store for the inbound message
UserRow(m, messageId) ==
  [chatId |-> m.chat.id, messageThreadId |-> m.message_thread_id, userId |-> m.from.id,
   userName |-> buildUserName(m.from), role |-> "user", text |-> StoredText(m),
   hasImage |-> m.photo, telegramMessageId |-> Some(messageId)]

\* one entry of the handler's trace: the call, the action it schedules, the rows
\* it removes
Effect(kind, fn) == [kind |-> kind, fn |-> fn, rows |-> 0]

\* ctx.runMutation(internal.messages.store, row): the row joins the table
Store(w, row) ==
  [w EXCEPT !.messages = Append(@, row), !.effects = Append(@, Effect("store", ""))]

\* messages.getRecent({chatId, messageThreadId}): the rows of the chat and thread
getRecent(w, chatId, messageThreadId) ==
  SelectSeq(w.messages,
            LAMBDA row : row.chatId = chatId /\ row.messageThreadId = messageThreadId)

\* ctx.runMutation(internal.messages.clearChat, {chatId, messageThreadId}): the rows
\* of the chat and thread leave the table
ClearChat(w, chatId, messageThreadId) ==
  [w EXCEPT !.messages = SelectSeq(@, LAMBDA row :
                             ~(row.chatId = chatId /\ row.messageThreadId = messageThreadId)),
            !.effects =
              Append(@, [Effect("clearChat", "") EXCEPT
                           !.rows = Len(getRecent(w, chatId, messageThreadId))])]

\* ctx.scheduler.runAfter(0, fn, args)
Schedule(w, fn, args) ==
  [w EXCEPT !.scheduled = Append(@, [fn |-> fn, args |-> args]),
            !.effects = Append(@, Effect("schedule", fn))]

\* a mutation or query that leaves the message table alone
Ran(w, fn) == [w EXCEPT !.effects = Append(@, Effect(fn, ""))]

\* new Response(..., {status})
Respond(w, status) == [w EXCEPT !.status = status]

\* await sendMessage(...) as the last step before the 200: a send that throws
\* rejects the handler
SendAndRespond(w, chatId, text, replyToMessageId, ok) ==
  Respond([w EXCEPT !.sent = Append(@, [chat_id |-> chatId, text |-> text,
                                        reply |-> replyToMessageId]),
                    !.effects = Append(@, Effect("sendMessage", ""))],
          IF ok THEN 200 ELSE 500)

\* variant: an update that does not address the bot is dropped
Unaddressed_Ignored(w, m, messageId) == Respond(w, 200)

\* the branch of !shouldRespond(...): stored for context, no response
Unaddressed(w, m, messageId) == Respond(Store(w, UserRow(m, messageId)), 200)

\* variant: /reset is stored like an unrecognized command once the chat is cleared
ResetCommand_KeepsCommand(w, m, messageId, ok) ==
  SendAndRespond(Store(ClearChat(w, m.chat.id, m.message_thread_id), UserRow(m, messageId)),
                 m.chat.id, RESET_MESSAGE, None, ok)

\* command === "/reset"
ResetCommand(w, m, messageId, ok) ==
  SendAndRespond(ClearChat(w, m.chat.id, m.message_thread_id),
                 m.chat.id, RESET_MESSAGE, None, ok)

\* variant: everybody may create issues
IssueDenied_Open(allowlist, m) == FALSE

\* issueAllowlist && !isAllowedUser(userId, issueAllowlist)
IssueDenied(allowlist, m) ==
  /\ allowlist # None
  /\ allowlist[1] # {}
  /\ ~isAllowed(m.from.id, allowlist[1])

\* the arguments processIssue is scheduled with
IssueArgs(m, messageId) ==
  [chatId |-> m.chat.id, userId |-> m.from.id, messageId |-> messageId,
   messageThreadId |-> m.message_thread_id, text |-> extractIssueDescription(m.text),
   image |-> FALSE]

\* variant: processIssue is scheduled before the command is stored
IssueCommand_ScheduleFirst(w, m, messageId) ==
  Respond(Store(Schedule(w, "processIssue", IssueArgs(m, messageId)),
                UserRow(m, messageId)),
          200)

\* command === "/issue", allowed: the command is stored, processIssue scheduled
IssueCommand(w, m, messageId) ==
  Respond(Schedule(Store(w, UserRow(m, messageId)), "processIssue",
                   IssueArgs(m, messageId)),
          200)

\* step 4 of the handler: the commands
\* variant: an unrecognized command is treated as a conversation message
Command_Fallthrough(w, req, m, messageId, ok) ==
  LET command == parseCommand(m.text)
  IN IF command \in {"/start", "/help"}
       THEN SendAndRespond(w, m.chat.id, HELP_MESSAGE, None, ok)
     ELSE IF command = "/reset"
       THEN ResetCommand(w, m, messageId, ok)
     ELSE IF command = "/issue"
       THEN IF IssueDenied(req.issueAllowlist, m)
              THEN SendAndRespond(w, m.chat.id, ISSUE_DENIED_MESSAGE, Some(messageId), ok)
              ELSE IssueCommand(w, m, messageId)
     ELSE Respond(Schedule(Store(Ran(w, "checkRateLimit"), UserRow(m, messageId)),
                           "processMessage",
                           [chatId |-> m.chat.id, messageId |-> messageId,
                            messageThreadId |-> m.message_thread_id]),
                  200)

Command(w, req, m, messageId, ok) ==
  LET command == parseCommand(m.text)
  IN IF command \in {"/start", "/help"}
       THEN SendAndRespond(w, m.chat.id, HELP_MESSAGE, None, ok)
     ELSE IF command = "/reset"
       THEN ResetCommand(w, m, messageId, ok)
     ELSE IF command = "/issue"
       THEN IF IssueDenied(req.issueAllowlist, m)
              THEN SendAndRespond(w, m.chat.id, ISSUE_DENIED_MESSAGE, Some(messageId), ok)
              ELSE IssueCommand(w, m, messageId)
     ELSE Respond(Store(w, UserRow(m, messageId)), 200)

\* scheduleArgs
ScheduleArgs(m, messageId, recentImage) ==
  [chatId |-> m.chat.id, userId |-> m.from.id, messageId |-> messageId,
   messageThreadId |-> m.message_thread_id, text |-> stripMention(m.text, BOT_USERNAME),
   image |-> (m.photo \/ (IsReplyToImagePrompt(m) /\ recentImage))]

\* process.env.RATE_LIMIT_PER_MINUTE of the deployment
RATE_LIMIT_PER_MINUTE == 1

\* the rows of the rate-limit table of a user in a chat within the last minute
RecentlyAccepted(w, chatId, userId) ==
  SelectSeq(w.rateLimits, LAMBDA row : row.chatId = chatId /\ row.userId = userId)

\* messages.checkRateLimit({chatId, userId, maxPerMinute}), its verdict: allowed
\* while fewer than maxPerMinute messages of the user were accepted in the chat
\* within the last minute
RateLimitAllows(w, chatId, userId, maxPerMinute) ==
  Len(RecentlyAccepted(w, chatId, userId)) < maxPerMinute

\* ctx.runMutation(internal.messages.checkRateLimit, ...), its effect: an accepted
\* message is recorded, a refused one is not
checkRateLimit(w, chatId, userId, maxPerMinute) ==
  LET ran == Ran(w, "checkRateLimit")
  IN IF RateLimitAllows(w, chatId, userId, maxPerMinute)
       THEN [ran EXCEPT !.rateLimits = Append(@, [chatId |-> chatId, userId |-> userId])]
       ELSE ran

\* variant: the message is stored and scheduled whatever the verdict
Conversation_Unlimited(w, m, messageId, recentImage, ok) ==
  LET checked == checkRateLimit(w, m.chat.id, m.from.id, RATE_LIMIT_PER_MINUTE)
      stored == Store(checked, UserRow(m, messageId))
      ensured == Ran(stored, "ensureChat")
      looked == IF ~m.photo /\ IsReplyToImagePrompt(m)
                  THEN Ran(ensured, "getRecentImageForUser")
                  ELSE ensured
  IN IF m.photo /\ stripMention(m.text, BOT_USERNAME) = <<>>
       THEN SendAndRespond(stored, m.chat.id, IMAGE_QUESTION_PROMPT, Some(messageId), ok)
     ELSE Respond(Schedule(looked, "processMessage",
                           ScheduleArgs(m, messageId, recentImage)),
                  200)

\* steps 5 to 7 of the handler: rate limit, image without a question, store and schedule
Conversation(w, m, messageId, recentImage, ok) ==
  LET allowed == RateLimitAllows(w, m.chat.id, m.from.id, RATE_LIMIT_PER_MINUTE)
      checked == checkRateLimit(w, m.chat.id, m.from.id, RATE_LIMIT_PER_MINUTE)
      stored == Store(checked, UserRow(m, messageId))
      ensured == Ran(stored, "ensureChat")
      looked == IF ~m.photo /\ IsReplyToImagePrompt(m)
                  THEN Ran(ensured, "getRecentImageForUser")
                  ELSE ensured
  IN IF ~allowed
       THEN SendAndRespond(checked, m.chat.id, RATE_LIMIT_MESSAGE, Some(messageId), ok)
     ELSE IF m.photo /\ stripMention(m.text, BOT_USERNAME) = <<>>
       THEN SendAndRespond(stored, m.chat.id, IMAGE_QUESTION_PROMPT, Some(messageId), ok)
     ELSE Respond(Schedule(looked, "processMessage",
                           ScheduleArgs(m, messageId, recentImage)),
                  200)

\* the handler of POST /api/telegram-webhook
Handle(w, req, messageId, recentImage, ok) ==
  IF SecretRejected(req) THEN Respond(w, 401)
  ELSE IF ~req.json THEN Respond(w, 400)
  ELSE IF req.message = None THEN Respond(w, 200)
  ELSE LET m == req.message[1]
       IN IF m.text = <<>> /\ ~m.photo THEN Respond(w, 200)
          ELSE IF Blocked(m) THEN Respond(w, 200)
          ELSE IF ~shouldRespond(m.chat.type, m.text, BOT_USERNAME, IsReplyToBot(m))
            THEN Unaddressed(w, m, messageId)
          ELSE IF StartsWithSlash(m.text) THEN Command(w, req, m, messageId, ok)
          ELSE Conversation(w, m, messageId, recentImage, ok)

\* Telegram posts an update; the handler runs to its response
TelegramWebhook ==
  /\ webhook.handled < MaxUpdates
  /\ \E req \in WebhookRequests, recentImage \in BOOLEAN, ok \in BOOLEAN :
       webhook' =
         Handle([webhook EXCEPT !.handled = @ + 1, !.request = Some(req),
                                !.status = 0, !.effects = <<>>],
                req, MessageId(webhook.handled), recentImage, ok)
  /\ UNCHANGED <<gatewayVars, issueCall, imageVars, concurrentVars, processCall, processIssueCall>>

\* a minute passes between two updates: the rows of the rate-limit table leave
\* the window
MinutePasses ==
  /\ webhook.handled < MaxUpdates
  /\ webhook.rateLimits # <<>>
  /\ webhook' = [webhook EXCEPT !.rateLimits = <<>>]
  /\ UNCHANGED <<gatewayVars, issueCall, imageVars, concurrentVars, processCall, processIssueCall>>

WebhookNext == TelegramWebhook \/ MinutePasses

WebhookSpec == Init /\ [][WebhookNext]_vars

(***************************************************************************)
(* Claims about the webhook route.                                         *)
(***************************************************************************)

\* the request the step handles
Handling == webhook'.request[1]

\* the step handles a request
HandlesRequest == webhook'.handled = webhook.handled + 1

\* the step stores nothing, sends nothing and schedules nothing
NothingDone ==
  /\ webhook'.messages = webhook.messages
  /\ webhook'.sent = webhook.sent
  /\ webhook'.scheduled = webhook.scheduled

\* TELEGRAM_WEBHOOK_SECRET is configured
SecretConfigured(req) == req.secret \notin {None, Some("")}

\* the request passes the secret check and its body is an update with a message
\* that has text or a photo
IsUpdate(req) ==
  /\ SecretConfigured(req) => req.headerSecret = req.secret
  /\ req.json
  /\ req.message # None
  /\ req.message[1].text # <<>> \/ req.message[1].photo

\* C25: with a webhook secret configured, a request whose secret header differs from
\* it is answered 401, and one that carries the secret but whose body is not valid
\* JSON is answered 400; neither stores a message, sends a Telegram message or
\* schedules an action.
C25_RejectedRequests ==
  [][HandlesRequest /\ SecretConfigured(Handling) =>
       /\ Handling.headerSecret # Handling.secret =>
            webhook'.status = 401 /\ NothingDone
       /\ (Handling.headerSecret = Handling.secret /\ ~Handling.json) =>
            webhook'.status = 400 /\ NothingDone]_vars

\* an update with a wrong secret was answered 401 after an earlier update was stored
C25_Witness ==
  /\ webhook.status = 401
  /\ webhook.request[1].headerSecret = Some("wrong-secret")
  /\ webhook.request[1].json
  /\ webhook.request[1].message # None
  /\ webhook.effects = <<>>
  /\ Len(webhook.messages) = 1

\* the update comes from a private chat whose user is not in ALLOWED_USER_IDS or
\* from another chat whose id is not in ALLOWED_GROUP_IDS
OffAllowlist(m) ==
  IF m.chat.type = "private"
    THEN m.from.id \notin ALLOWED_USER_IDS
    ELSE m.chat.id \notin ALLOWED_GROUP_IDS

\* C26: an update from a private chat of a user outside ALLOWED_USER_IDS, or from a
\* non-private chat outside ALLOWED_GROUP_IDS, is answered 200 and has no effect,
\* commands included: no row stored or removed, nothing sent, nothing scheduled,
\* no mutation run.
C26_AllowlistBlocks ==
  [][(HandlesRequest /\ IsUpdate(Handling) /\ OffAllowlist(Handling.message[1])) =>
       /\ webhook'.status = 200
       /\ NothingDone
       /\ webhook'.effects = <<>>]_vars

\* a /reset from a group off the allowlist left the stored row of chat 100 in place
C26_Witness ==
  /\ webhook.status = 200
  /\ IsUpdate(webhook.request[1])
  /\ webhook.request[1].message[1].chat = [id |-> 999, type |-> "group"]
  /\ webhook.request[1].message[1].text = <<"/reset">>
  /\ webhook.effects = <<>>
  /\ Len(webhook.messages) = 1

\* the update passes the allowlists and is not addressed to the bot
NotAddressed(m) ==
  /\ ~OffAllowlist(m)
  /\ ~shouldRespond(m.chat.type, m.text, BOT_USERNAME, IsReplyToBot(m))

\* C27: an allowed update that does not address the bot adds exactly one row, a user
\* message carrying the update's message id, and nothing else happens: no message
\* sent, no rate-limit check, nothing scheduled.
C27_StoredForContext ==
  [][(HandlesRequest /\ IsUpdate(Handling) /\ NotAddressed(Handling.message[1])) =>
       /\ Len(webhook'.messages) = Len(webhook.messages) + 1
       /\ SubSeq(webhook'.messages, 1, Len(webhook.messages)) = webhook.messages
       /\ LET row == webhook'.messages[Len(webhook'.messages)]
          IN /\ row.role = "user"
             /\ row.chatId = Handling.message[1].chat.id
             /\ row.telegramMessageId = Some(MessageId(webhook.handled))
       /\ webhook'.sent = webhook.sent
       /\ webhook'.scheduled = webhook.scheduled
       /\ webhook'.effects = <<Effect("store", "")>>
       /\ webhook'.status = 200]_vars

\* a group message without a mention was stored, after one that was answered
C27_Witness ==
  /\ webhook.handled = 2
  /\ IsUpdate(webhook.request[1])
  /\ webhook.request[1].message[1].chat.type = "group"
  /\ webhook.request[1].message[1].text = <<"hello">>
  /\ webhook.request[1].message[1].reply_to_message = None
  /\ webhook.effects = <<Effect("store", "")>>
  /\ Len(webhook.messages) = 2
  /\ Len(webhook.scheduled) = 1

\* the update is a command the handler acts on
IsCommand(req, word) ==
  /\ IsUpdate(req)
  /\ ~OffAllowlist(req.message[1])
  /\ req.message[1].text # <<>>
  /\ req.message[1].text[1] = word

\* the rows outside the chat and thread of message m
RowsElsewhere(rows, m) ==
  SelectSeq(rows, LAMBDA row : ~(row.chatId = m.chat.id
                                 /\ row.messageThreadId = m.message_thread_id))

\* C28: /reset first removes the stored rows of the chat and thread it was sent in,
\* and only those, then sends the confirmation; the command is not stored, so the
\* history of that chat and thread read right after is empty.
C28_ResetClearsHistory ==
  [][(HandlesRequest /\ IsCommand(Handling, "/reset")) =>
       /\ getRecent(webhook', Handling.message[1].chat.id,
                    Handling.message[1].message_thread_id) = <<>>
       /\ webhook'.messages = RowsElsewhere(webhook.messages, Handling.message[1])
       /\ Len(webhook'.effects) = 2
       /\ webhook'.effects[1].kind = "clearChat"
       /\ webhook'.effects[2].kind = "sendMessage"
       /\ Len(webhook'.sent) = Len(webhook.sent) + 1
       /\ webhook'.sent[Len(webhook'.sent)].text = RESET_MESSAGE
       /\ webhook'.scheduled = webhook.scheduled]_vars

\* a /reset in chat 100 removed the one row stored there and was confirmed
C28_Witness ==
  /\ webhook.status = 200
  /\ IsCommand(webhook.request[1], "/reset")
  /\ webhook.request[1].message[1].chat.id = 100
  /\ webhook.effects # <<>>
  /\ webhook.effects[1].kind = "clearChat"
  /\ webhook.effects[1].rows = 1
  /\ webhook.messages = <<>>
  /\ webhook.sent[Len(webhook.sent)].text = RESET_MESSAGE

\* ALLOWED_ISSUE_USER_IDS is set and does not list the sender
OffIssueAllowlist(req) ==
  /\ req.issueAllowlist \notin {None, Some({})}
  /\ req.message[1].from.id \notin req.issueAllowlist[1]

\* C29: an /issue command of a sender that a set ALLOWED_ISSUE_USER_IDS does not list
\* yields exactly one message, the permission-denied one, and neither stores nor
\* schedules; with the variable unset or the sender listed, the command is stored
\* and processIssue is scheduled.
C29_IssueAllowlist ==
  [][(HandlesRequest /\ IsCommand(Handling, "/issue")) =>
       IF OffIssueAllowlist(Handling)
         THEN /\ Len(webhook'.sent) = Len(webhook.sent) + 1
              /\ webhook'.sent[Len(webhook'.sent)].text = ISSUE_DENIED_MESSAGE
              /\ webhook'.messages = webhook.messages
              /\ webhook'.scheduled = webhook.scheduled
         ELSE /\ Len(webhook'.messages) = Len(webhook.messages) + 1
              /\ webhook'.messages[Len(webhook'.messages)].telegramMessageId =
                   Some(MessageId(webhook.handled))
              /\ webhook'.messages[Len(webhook'.messages)].text = Handling.message[1].text
              /\ Len(webhook'.scheduled) = Len(webhook.scheduled) + 1
              /\ webhook'.scheduled[Len(webhook'.scheduled)].fn = "processIssue"
              /\ webhook'.sent = webhook.sent]_vars

\* an /issue of user 1 under the allowlist "99,88" was refused
C29_Witness ==
  /\ webhook.status = 200
  /\ IsCommand(webhook.request[1], "/issue")
  /\ webhook.request[1].issueAllowlist = Some({99, 88})
  /\ webhook.request[1].message[1].from.id = 1
  /\ Len(webhook.effects) = 1
  /\ webhook.sent[Len(webhook.sent)].text = ISSUE_DENIED_MESSAGE
  /\ webhook.scheduled = <<>>

\* the positions of the handler's trace at which an action is scheduled
SchedulePoints == {k \in 1..Len(webhook.effects) : webhook.effects[k].kind = "schedule"}

IsConversation(req) ==
  /\ IsUpdate(req)
  /\ ~OffAllowlist(req.message[1])
  /\ shouldRespond(req.message[1].chat.type, req.message[1].text, BOT_USERNAME,
                   IsReplyToBot(req.message[1]))
  /\ ~StartsWithSlash(req.message[1].text)

\* the number of messages of the sender of m accepted in its chat within the last
\* minute, in table w
AcceptedInWindow(rows, m) ==
  Cardinality({n \in 1..Len(rows) :
                 rows[n].chatId = m.chat.id /\ rows[n].userId = m.from.id})

\* the step schedules processMessage
SchedulesProcessMessage ==
  /\ Len(webhook'.scheduled) = Len(webhook.scheduled) + 1
  /\ webhook'.scheduled[Len(webhook'.scheduled)].fn = "processMessage"

\* C31: once RATE_LIMIT_PER_MINUTE messages of a user were accepted in a chat within
\* the window, the user's next non-command message addressed to the bot is answered
\* with the "too fast" reply to that message and is neither stored nor scheduled;
\* and a step schedules processMessage only after the rate-limit check of that
\* update accepted it (the check ran before the schedule and recorded the message).
C31_RateLimited ==
  [][HandlesRequest =>
       /\ (/\ IsConversation(Handling)
           /\ AcceptedInWindow(webhook.rateLimits, Handling.message[1])
                >= RATE_LIMIT_PER_MINUTE) =>
            /\ Len(webhook'.sent) = Len(webhook.sent) + 1
            /\ webhook'.sent[Len(webhook'.sent)] =
                 [chat_id |-> Handling.message[1].chat.id, text |-> RATE_LIMIT_MESSAGE,
                  reply |-> Some(MessageId(webhook.handled))]
            /\ webhook'.messages = webhook.messages
            /\ webhook'.scheduled = webhook.scheduled
            /\ webhook'.rateLimits = webhook.rateLimits
       /\ SchedulesProcessMessage =>
            /\ AcceptedInWindow(webhook.rateLimits, Handling.message[1])
                 < RATE_LIMIT_PER_MINUTE
            /\ AcceptedInWindow(webhook'.rateLimits, Handling.message[1])
                 = AcceptedInWindow(webhook.rateLimits, Handling.message[1]) + 1
            /\ \E j, k \in 1..Len(webhook'.effects) :
                 /\ j < k
                 /\ webhook'.effects[j].kind = "checkRateLimit"
                 /\ webhook'.effects[k].kind = "schedule"]_vars

\* the first update was accepted and scheduled, the second of the same user in the
\* same chat was refused with the "too fast" reply
C31_Witness ==
  /\ webhook.handled = 2
  /\ Len(webhook.scheduled) = 1
  /\ webhook.scheduled[1].fn = "processMessage"
  /\ Len(webhook.rateLimits) = RATE_LIMIT_PER_MINUTE
  /\ Len(webhook.sent) = 1
  /\ webhook.sent[1].text = RATE_LIMIT_MESSAGE
  /\ Len(webhook.messages) = 1
  /\ Len(webhook.effects) = 2
  /\ webhook.effects[1].kind = "checkRateLimit"

\* the commands the handler recognizes
RecognizedCommands == {"/start", "/help", "/reset", "/issue"}

\* the request is an update whose text starts with "/"
IsSlashMessage(req) == IsUpdate(req) /\ StartsWithSlash(req.message[1].text)

\* the number of messages.store calls of the handled request
StoreCalls(w) ==
  Cardinality({k \in 1..Len(w.effects) : w.effects[k].kind = "store"})

\* C39: handling a message that starts with "/" never schedules processMessage and
\* never runs the rate-limit check, recognized command or not; an unrecognized
\* command of an allowed chat adds one row, the user message with the update's
\* message id, sends nothing and schedules nothing; and no request calls
\* messages.store more than once or adds more than one row.
C39_CommandsBypassAI ==
  [][HandlesRequest =>
       /\ IsSlashMessage(Handling) =>
            /\ \A k \in 1..Len(webhook'.scheduled) :
                 k > Len(webhook.scheduled) => webhook'.scheduled[k].fn # "processMessage"
            /\ \A k \in 1..Len(webhook'.effects) :
                 webhook'.effects[k].kind # "checkRateLimit"
            /\ webhook'.rateLimits = webhook.rateLimits
       /\ (/\ IsSlashMessage(Handling)
           /\ ~OffAllowlist(Handling.message[1])
           /\ Handling.message[1].text[1] \notin RecognizedCommands) =>
            /\ Len(webhook'.messages) = Len(webhook.messages) + 1
            /\ SubSeq(webhook'.messages, 1, Len(webhook.messages)) = webhook.messages
            /\ webhook'.messages[Len(webhook'.messages)].telegramMessageId
                 = Some(MessageId(webhook.handled))
            /\ webhook'.messages[Len(webhook'.messages)].role = "user"
            /\ StoreCalls(webhook') = 1
            /\ webhook'.sent = webhook.sent
            /\ webhook'.scheduled = webhook.scheduled
            /\ webhook'.status = 200
       /\ StoreCalls(webhook') <= 1
       /\ Len(webhook'.messages) <= Len(webhook.messages) + 1]_vars

\* /foo was handled after an accepted conversation message: it was stored as the
\* second row, without a reply and without a second schedule
C39_Witness ==
  /\ webhook.handled = 2
  /\ webhook.request[1].message # None
  /\ webhook.request[1].message[1].text = <<"/foo">>
  /\ Len(webhook.messages) = 2
  /\ webhook.messages[2].text = <<"/foo">>
  /\ Len(webhook.scheduled) = 1
  /\ webhook.sent = <<>>
  /\ webhook.effects = <<Effect("store", "")>>

(***************************************************************************)
(* processIssue (convex/telegram.ts): one run of the scheduled action,     *)
(* from the typing indicator to the one message that reports the outcome.  *)
(* Its suspension points are sendChatAction, generateResponse and          *)
(* createGitHubIssue; sendMessage ends the run.                            *)
(***************************************************************************)
ISSUE_NOT_RELEVANT_MESSAGE ==
  <<"Not", "enough", "context", "to", "create", "a", "meaningful", "issue.">>

ISSUE_FAILED_MESSAGE ==
  <<"Sorry,", "I", "couldn't", "create", "the", "GitHub", "issue.">>

\* `Created issue #${String(issue.number)}: ${issue.html_url}`
IssueCreatedMessage(issue) ==
  <<"Created", "issue", "#" \o ToString(issue.number) \o ":", issue.html_url>>

GITHUB_REPO == "owner/repo"

\* the arguments the webhook schedules processIssue with
ProcessIssueArgs ==
  [chatId : {100}, userId : {1}, userName : {"Alice"},
   description : {"", "fix the login page"}, messageId : {1},
   messageThreadId : {None, Some(7)}]

\* issueUserMessage
issueUserMessage(description) ==
  IF description # ""
    THEN "Create a GitHub issue based on this description: \"" \o description \o "\""
    ELSE "Create a GitHub issue summarizing the recent conversation problems or requests."

\* messagesForAI: the conversation followed by the instruction
MessagesForAI(conversation, description) ==
  Append(conversation, [role |-> "user", content |-> Str(issueUserMessage(description))])

\* the texts the provider answers with: the JSON object the prompt asks for, with
\* either verdict, and a text that is no JSON
IssueAiTexts ==
  {[json |-> TRUE, title |-> "Bug: Login page broken", body |-> "## Description",
    relevant |-> TRUE],
   [json |-> TRUE, title |-> "", body |-> "", relevant |-> FALSE],
   [json |-> FALSE]}

\* parseIssueSummary(aiResponse.text): the summary the JSON text carries; for a text
\* that is no JSON the helper either throws or reports an irrelevant summary
ParseOutcomes(text) ==
  IF text.json
    THEN {Ok([title |-> text.title, body |-> text.body, relevant |-> text.relevant])}
    ELSE {[kind |-> "threw"], Ok([title |-> "", body |-> "", relevant |-> FALSE])}

\* the outcomes of the generateResponse call of processIssue, made without options
IssueGenerateOutcomes(p, messagesForAI) ==
  LET a == Dispatch(p, AllowWebSearch(None, messagesForAI))
  IN IF a = "none"
       THEN {[kind |-> "threw", requests |-> 0]}
       ELSE {[kind |-> "ok", requests |-> 1, text |-> t] : t \in IssueAiTexts}
            \cup {[kind |-> "threw", requests |-> 1]}

\* sendMessage(token, args.chatId, text, {replyToMessageId: args.messageId, ...})
IssueSent(call, text) ==
  [call EXCEPT !.sent = Append(@, SendMessageBody(text, call.args[1].messageId)),
               !.log = Append(@, "sendMessage")]

\* the catch block: the could-not-create message is sent; the action rejects when
\* that send fails
IssueCatch(call, fault, sendOk) ==
  [IssueSent(call, ISSUE_FAILED_MESSAGE) EXCEPT
     !.pc = "done",
     !.faults = @ \cup {fault} \cup (IF sendOk THEN {} ELSE {"sendMessage"}),
     !.rejected = ~sendOk]

\* a sendMessage inside the try block: the action ends, through the catch block
\* when the send fails
IssueReply(call, text, oks) ==
  IF oks[1]
    THEN [IssueSent(call, text) EXCEPT !.pc = "done"]
    ELSE IssueCatch(IssueSent(call, text), "sendMessage", oks[2])

\* the scheduler runs processIssue: the environment is read, which rejects the
\* action before its try block when a required variable is missing; then the
\* typing indicator is requested
ProcessIssue ==
  /\ processIssueCall.pc = "idle"
  /\ \E args \in ProcessIssueArgs, env \in AiProviderEnv, configured \in BOOLEAN :
       processIssueCall' =
         IF ~configured
           THEN [processIssueCall EXCEPT !.pc = "done", !.args = Some(args),
                                         !.faults = {"requireEnv"}, !.rejected = TRUE]
           ELSE [processIssueCall EXCEPT !.pc = "sendChatAction", !.args = Some(args),
                                         !.aiProvider = AiProviderOf(env),
                                         !.log = <<"sendChatAction">>]
  /\ UNCHANGED <<gatewayVars, issueCall, imageVars, concurrentVars, processCall, webhook>>

\* sendChatAction settles; the history is read and formatted, the gateway called
IssueChatActionResponse ==
  /\ processIssueCall.pc = "sendChatAction"
  /\ \E ok \in BOOLEAN, rows \in RecentHistories, sendOk \in BOOLEAN :
       processIssueCall' =
         IF ~ok
           THEN IssueCatch(processIssueCall, "sendChatAction", sendOk)
           ELSE [processIssueCall EXCEPT
                   !.pc = "generateResponse",
                   !.messagesForAI =
                     MessagesForAI(formatConversation(rows),
                                   processIssueCall.args[1].description),
                   !.log = Append(@, "generateResponse")]
  /\ UNCHANGED <<gatewayVars, issueCall, imageVars, concurrentVars, processCall, webhook>>

\* variant: the issue is created whatever the summary says
IssueGenerated_AlwaysCreates(call, summary, oks) ==
  [call EXCEPT !.pc = "createGitHubIssue",
               !.summary = Some(summary),
               !.githubRequests =
                 Append(@, GitHubRequest(githubToken, GITHUB_REPO,
                                         summary.title, summary.body)),
               !.log = Append(@, "createGitHubIssue")]

\* the summary is parsed: an irrelevant one ends the run with the notice, a
\* relevant one calls createGitHubIssue
IssueGenerated(call, summary, oks) ==
  IF ~summary.relevant
    THEN IssueReply([call EXCEPT !.summary = Some(summary)],
                    ISSUE_NOT_RELEVANT_MESSAGE, oks)
    ELSE [call EXCEPT !.pc = "createGitHubIssue",
                      !.summary = Some(summary),
                      !.githubRequests =
                        Append(@, GitHubRequest(githubToken, GITHUB_REPO,
                                                summary.title, summary.body)),
                      !.log = Append(@, "createGitHubIssue")]

\* generateResponse settles
IssueGenerateResult ==
  /\ processIssueCall.pc = "generateResponse"
  /\ \E outcome \in IssueGenerateOutcomes(processIssueCall.aiProvider,
                                          processIssueCall.messagesForAI),
        oks \in SendOutcomes :
       LET c == [processIssueCall EXCEPT !.aiRequests = outcome.requests]
       IN IF outcome.kind = "threw"
            THEN processIssueCall' = IssueCatch(c, "generateResponse", oks[1])
            ELSE \E parsed \in ParseOutcomes(outcome.text) :
                   processIssueCall' =
                     IF parsed.kind = "threw"
                       THEN IssueCatch(c, "parseIssueSummary", oks[1])
                       ELSE IssueGenerated(c, parsed.data, oks)
  /\ UNCHANGED <<gatewayVars, issueCall, imageVars, concurrentVars, processCall, webhook>>

\* createGitHubIssue settles: the URL of the issue is sent, or the catch block runs
IssueGitHubResult ==
  /\ processIssueCall.pc = "createGitHubIssue"
  /\ \E resp \in GitHubResponses, oks \in SendOutcomes :
       processIssueCall' =
         IF resp.kind = "ok"
           THEN IssueReply([processIssueCall EXCEPT !.issue = Some(resp.data)],
                           IssueCreatedMessage(resp.data), oks)
           ELSE IssueCatch(processIssueCall, "createGitHubIssue", oks[1])
  /\ UNCHANGED <<gatewayVars, issueCall, imageVars, concurrentVars, processCall, webhook>>

ProcessIssueNext ==
  \/ ProcessIssue
  \/ IssueChatActionResponse
  \/ IssueGenerateResult
  \/ IssueGitHubResult

ProcessIssueSpec == Init /\ [][ProcessIssueNext]_vars

(***************************************************************************)
(* Claims about processIssue.                                              *)
(***************************************************************************)
\* generateResponse resolved in this run
IssueAiSucceeded ==
  /\ \E k \in 1..Len(processIssueCall.log) : processIssueCall.log[k] = "generateResponse"
  /\ processIssueCall.pc # "generateResponse"
  /\ "generateResponse" \notin processIssueCall.faults

\* the summary was parsed and is relevant
IssueSummaryRelevant ==
  processIssueCall.summary # None /\ processIssueCall.summary[1].relevant

\* the texts of the messages the run asked Telegram to send, in order
IssueTextsSent == [k \in 1..Len(processIssueCall.sent) |-> processIssueCall.sent[k].text]

\* the one message that reports the outcome of a finished run
IssueOutcomeMessage ==
  IF processIssueCall.issue # None
    THEN IssueCreatedMessage(processIssueCall.issue[1])
  ELSE IF processIssueCall.summary # None /\ ~processIssueCall.summary[1].relevant
         /\ "parseIssueSummary" \notin processIssueCall.faults
    THEN ISSUE_NOT_RELEVANT_MESSAGE
  ELSE ISSUE_FAILED_MESSAGE

\* createGitHubIssue is called at most once, and exactly once if and only if the AI
\* call succeeded and the parsed summary is relevant
IssueCreationGuarded ==
  /\ Len(processIssueCall.githubRequests) <= 1
  /\ Len(processIssueCall.githubRequests) = 1 <=> (IssueAiSucceeded /\ IssueSummaryRelevant)

ImageResolutionFailed ==
  processCall.pc = "done" /\ processCall.imageFailure # None

\* the messages that explain why the image could not be used
ImageExplanations == {IMAGE_TOO_LARGE_MESSAGE, IMAGE_DOWNLOAD_FAILED_MESSAGE}

\* the message that explains the failure the run met
ImageExplanation ==
  IF processCall.imageFailure = Some(<<"IMAGE_TOO_LARGE">>)
    THEN IMAGE_TOO_LARGE_MESSAGE
    ELSE IMAGE_DOWNLOAD_FAILED_MESSAGE

\* the sends of the run that carry an explanation of an image failure
ExplanationsSent ==
  {k \in 1..Len(processCall.sent) : processCall.sent[k].text \in ImageExplanations}

MessageOfPath ==
  IF processCall.faults = {} THEN processCall.stored[1].text
  ELSE IF processCall.imageFailure # None THEN ImageExplanation
  ELSE IF /\ processCall.aiError # None
          /\ processCall.args[1].image # None
          /\ isImageUnsupportedError(processCall.aiError[1])
    THEN IMAGE_UNSUPPORTED_MESSAGE
  ELSE PROCESSING_ERROR_MESSAGE

\* C38: provided the sendMessage calls succeed, a run of processMessage that reached
\* its try block and ended has sent exactly one message, the one of its path: the
\* stored reply, the too-large, download-failed or image-unsupported message, or
\* the generic error message (typing, query, AI or store failure).
C38_ExactlyOneMessage ==
  (processCall.pc = "done" /\ "sendMessage" \notin processCall.faults) =>
    /\ Len(processCall.sent) = 1
    /\ processCall.sent[1].text = MessageOfPath
    /\ processCall.faults = {} => Len(processCall.stored) = 1

\* a run whose store mutation failed after the answer arrived sent the generic error
\* message and nothing else
C38_Witness ==
  /\ processCall.pc = "done"
  /\ processCall.faults = {"store"}
  /\ processCall.aiResponse # None
  /\ Len(processCall.sent) = 1
  /\ processCall.sent[1].text = PROCESSING_ERROR_MESSAGE

(***************************************************************************)
(* Claims about the running message history of the tool loop.              *)
(***************************************************************************)
\* the step is a round of the tool loop whose response carried a choice
LoopRoundStep == Len(received') = Len(received) + 1 /\ adapter = "callMoonshotWithSearch"

\* the choice of the round the step processes
RoundChoice == received'[Len(received')].choices[1]

\* the tool-call list of the round, when its finish signal is "tool_calls" and the
\* list is there
RoundToolCalls == RoundChoice.message.tool_calls[1]

\* the tool-result entry that echoes tool call tc
EchoOf(tc) ==
  [role |-> "tool", tool_call_id |-> tc.id, name |-> tc.function.name,
   content |-> Some(Str(tc.function.arguments))]

\* entry n of history h is a tool-result entry whose tool_call_id is the id of a
\* tool call of the assistant entry that precedes its group of tool entries
MatchesPrecedingAssistant(h, n) ==
  \E a \in 1..(n - 1) :
    /\ h[a].role = "assistant"
    /\ \A j \in (a + 1)..n : h[j].role = "tool"
    /\ (n - a) \in 1..Len(h[a].tool_calls)
    /\ h[a].tool_calls[n - a].id = h[n].tool_call_id

\* C33: a round whose finish signal is "tool_calls" and that carries a list of k
\* tool calls extends the running history by exactly 1 + k entries and leaves the
\* earlier entries alone: an assistant entry with the tool-call list as received,
\* then one tool entry per call, in order, echoing its id, name and argument
\* string; and every tool entry of the history pairs with a tool call of the
\* assistant entry in front of its group.
C33_HistoryGrowth ==
  [][/\ (/\ LoopRoundStep
         /\ RoundChoice.finish_reason = "tool_calls"
         /\ RoundChoice.message.tool_calls # None) =>
          /\ Len(apiMessages') = Len(apiMessages) + 1 + Len(RoundToolCalls)
          /\ SubSeq(apiMessages', 1, Len(apiMessages)) = apiMessages
          /\ apiMessages'[Len(apiMessages) + 1].role = "assistant"
          /\ apiMessages'[Len(apiMessages) + 1].tool_calls = RoundToolCalls
          /\ \A k \in 1..Len(RoundToolCalls) :
               apiMessages'[Len(apiMessages) + 1 + k] = EchoOf(RoundToolCalls[k])
     /\ \A n \in 1..Len(apiMessages') :
          apiMessages'[n].role = "tool" => MatchesPrecedingAssistant(apiMessages', n)]_vars

\* the history holds two tool-call rounds: one with two calls, then one with one
C33_Witness ==
  /\ adapter = "callMoonshotWithSearch"
  /\ Len(received) = 2
  /\ Len(apiMessages) >= 5
  /\ apiMessages[Len(apiMessages)].role = "tool"
  /\ apiMessages[Len(apiMessages) - 1].role = "assistant"
  /\ apiMessages[Len(apiMessages) - 2].role = "tool"
  /\ apiMessages[Len(apiMessages) - 3].role = "tool"
  /\ apiMessages[Len(apiMessages) - 4].role = "assistant"

\* the round carries at least one tool call under the finish signal "tool_calls"
ToolCallsPresent(choice) ==
  /\ choice.finish_reason = "tool_calls"
  /\ choice.message.tool_calls # None
  /\ Len(choice.message.tool_calls[1]) > 0

\* C34: a round whose finish signal is neither "stop" nor "tool_calls" with tool
\* calls present ends the call on that round without error: the result carries the
\* text of the round (the empty string when there is none), the token sums and the
\* queries gathered so far, and no further request is sent.
C34_OtherSignalsTerminate ==
  [][(/\ LoopRoundStep
      /\ RoundChoice.finish_reason # "stop"
      /\ ~ToolCallsPresent(RoundChoice)) =>
       /\ pc' = "returned"
       /\ error' = None
       /\ result' # None
       /\ result'[1].text = Some(OrElse(RoundChoice.message.content, ""))
       /\ result'[1].inputTokens = Some(totalInputTokens')
       /\ result'[1].outputTokens = Some(totalOutputTokens')
       /\ result'[1].webSearchQueries
            = (IF searchQueries = <<>> THEN None ELSE Some(searchQueries))
       /\ requests' = requests]_vars

(***************************************************************************)
(* Claims about the order of the rounds of one tool-loop call.             *)
(***************************************************************************)
\* the requests of invocation c that have not been answered
InFlight(c) == Len(calls[c].requests) - Len(calls[c].responses)

\* the assistant and tool messages that answer n of invocation c adds to the list
TurnsOfRound(c, n) ==
  LET message == calls[c].responses[n].data.choices[1].message
  IN <<[role |-> "assistant",
        content |-> IF message.content = None THEN None ELSE Some(Str(message.content[1])),
        tool_calls |-> message.tool_calls[1]]>> \o
     [k \in 1..Len(message.tool_calls[1]) |-> EchoOf(message.tool_calls[1][k])]

\* C35: the rounds of one call are sequential, whatever the other call does: at
\* most one of its requests is unanswered, and one is exactly while the call is
\* suspended; request N+1 exists only once answer N, a tool-call round, has been
\* processed (the round counter and the history of the frame have moved on); and
\* the message list of request N+1 is that of request N followed by the assistant
\* and tool messages of round N.
C35_RoundsAreSequential ==
  \A c \in CallIds :
    /\ InFlight(c) \in {0, 1}
    /\ InFlight(c) = 1 <=> calls[c].pc = "awaiting"
    /\ calls[c].pc # "idle" => Len(calls[c].requests) >= 1
    /\ \A n \in 1..(Len(calls[c].requests) - 1) :
         /\ n <= Len(calls[c].responses)
         /\ calls[c].responses[n].kind = "ok"
         /\ calls[c].responses[n].data.choices[1].finish_reason = "tool_calls"
         /\ frames[c].i >= n
         /\ calls[c].requests[n + 1].body.messages =
              calls[c].requests[n].body.messages \o TurnsOfRound(c, n)
    /\ calls[c].pc = "awaiting" =>
         calls[c].requests[Len(calls[c].requests)].body.messages = frames[c].apiMessages

\* the first call has sent its third request while the second awaits the answer to
\* its first
C35_Witness ==
  /\ Len(calls[1].requests) = 3
  /\ Len(calls[1].responses) = 2
  /\ calls[1].pc = "awaiting"
  /\ Len(calls[2].requests) = 1
  /\ calls[2].pc = "awaiting"

(***************************************************************************)
(* Claims about the thinking field of the requests.                        *)
(***************************************************************************)
\* the thinking field a moonshot request owes: {type} of the mode supplied in
\* options, absent when none was supplied
ThinkingSupplied ==
  IF options # None /\ options[1].thinking # None
    THEN Some([type |-> options[1].thinking[1]])
    ELSE None

\* C36: no request of a call for a provider other than moonshot carries a thinking
\* field, whatever options.thinking is; every request of a call for moonshot, plain
\* or of the tool loop, carries thinking: {type: mode} exactly when a mode was
\* supplied.
C36_ThinkingOnlyForMoonshot ==
  \A n \in 1..Len(requests) :
    IF provider = "moonshot"
      THEN requests[n].body.thinking = ThinkingSupplied
      ELSE requests[n].body.thinking = None

\* a grok call with a thinking mode supplied has sent its chat-completions request
C36_Witness ==
  /\ provider = "grok"
  /\ adapter = "callOpenAICompatible"
  /\ ThinkingSupplied # None
  /\ Len(requests) = 1
  /\ requests[1].body.thinking = None

(***************************************************************************)
(* Claims about the flattening of contents for the responses API.          *)
(***************************************************************************)
\* the request goes to a responses-API endpoint
IsResponsesRequest(req) ==
  req.url \in {ResponsesUrl(p, env)[1] :
                 p \in {"grok", "openai"}, env \in EnvValues}

\* the content holds text only: a string, or parts that are all text parts
IsPlainText(content) ==
  content.array => \A k \in 1..Len(content.parts) : content.parts[k].type = "text"

\* the text of a content that holds text only: the string, or the texts of its
\* parts joined by single spaces
PlainTextOf(content) ==
  IF ~content.array THEN content.text
  ELSE JoinWith([k \in 1..Len(content.parts) |-> content.parts[k].text], " ")

\* C40: every request generateResponse sends to a responses-API endpoint is built
\* from turns that hold text only: after the system entry its input has one entry
\* per turn, whose content is the turn's own text (its string, or its text parts
\* joined by spaces), so no "[image]" stands in for an image part.
C40_NoPlaceholderSent ==
  \A n \in 1..Len(requests) :
    IsResponsesRequest(requests[n]) =>
      /\ Len(requests[n].body.input) = Len(messages) + 1
      /\ \A k \in 1..Len(messages) :
           /\ IsPlainText(messages[k].content)
           /\ requests[n].body.input[k + 1] =
                [role |-> messages[k].role, content |-> PlainTextOf(messages[k].content)]
           /\ requests[n].body.input[k + 1].content # "[image]"

\* an openai call with web search on and a turn made of text parts has sent its
\* request to the responses API
C40_Witness ==
  /\ provider = "openai"
  /\ adapter = "callResponsesAPIWithSearch"
  /\ Len(requests) = 1
  /\ IsResponsesRequest(requests[1])
  /\ \E k \in 1..Len(messages) : messages[k].content.array

====
